---- MODULE Spec2Model ----
(***************************************************************************)
(* Model of the Lucernex plumbing dashboard's reconciliation pipeline      *)
(* (app/etl.py: run_etl and the functions it calls) and of the refresh     *)
(* endpoint that starts it (app/main.py: api_refresh_data).                *)
(*                                                                         *)
(* Representation.                                                         *)
(*  - A text (scope of work, item text, commentary, store number, PO       *)
(*    number) is a sequence of atoms; an atom is one character ("4", "#",  *)
(*    " ") or one word the code's patterns treat as a unit ("UCOTank",     *)
(*    "Cancelled").  The empty text << >> stands for both None and "".     *)
(*  - A nullable amount is << >> (SQL NULL / Python None) or <<n>>.        *)
(*  - A table is the sequence of its rows in rowid order.                  *)
(*  - Columns the pipeline only copies (city, state, dates, status of a    *)
(*    PO, ...) are left out of the rows.                                   *)
(***************************************************************************)
EXTENDS Integers, Sequences, FiniteSets, TLC

(***************************************************************************)
(* Values                                                                  *)
(***************************************************************************)
NULL == "NULL"                       \* None / SQL NULL of a string column
NoAmt == << >>                       \* None / SQL NULL of a numeric column
Amt(n) == <<n>>
Num(a) == a[1]

\* Python `x or 0` on a number or None.
OrZero(a) == IF a = NoAmt THEN Amt(0) ELSE a

\* Python truthiness of an optional string.
Falsy(s) == s = NULL \/ s = ""

Digits == {"0", "1", "2", "3", "4", "5", "6", "7", "8", "9"}
IsDigit(a) == a \in Digits
IsSpace(a) == a = " "

\* str.lower() / re.IGNORECASE on one atom.
LowerAtom(a) ==
    CASE a \in {"Active", "ACTIVE"} -> "active"
      [] a \in {"Cancelled", "CANCELLED"} -> "cancelled"
      [] a \in {"Duplicate", "DUPLICATE"} -> "duplicate"
      [] a \in {"Complete", "COMPLETE"} -> "complete"
      [] a \in {"UCOTank", "UCOTANK", "ucoTank"} -> "ucotank"
      [] a \in {"APTIM", "Aptim"} -> "aptim"
      [] a \in {"INSTALLER", "Installer"} -> "installer"
      [] a \in {"INSTALLERS", "Installers"} -> "installers"
      [] a \in {"PO", "Po"} -> "po"
      [] OTHER -> a

Lower(text) == [i \in 1..Len(text) |-> LowerAtom(text[i])]

\* `marker in text` for a marker that is one atom.
Contains(text, marker) == \E i \in 1..Len(text) : text[i] = marker

\* Number of digit atoms of `text` from position i on.
RECURSIVE DigitRun(_, _)
DigitRun(text, i) ==
    IF i <= Len(text) /\ IsDigit(text[i]) THEN 1 + DigitRun(text, i + 1) ELSE 0

\* Number of whitespace atoms of `text` from position i on.
RECURSIVE SpaceRun(_, _)
SpaceRun(text, i) ==
    IF i <= Len(text) /\ IsSpace(text[i]) THEN 1 + SpaceRun(text, i + 1) ELSE 0

\* A dict as a function on its key set.
EmptyDict == [k \in {} |-> NULL]
DictSet(d, k, v) == [x \in DOMAIN d \cup {k} |-> IF x = k THEN v ELSE d[x]]

(***************************************************************************)
(* _build_store_to_sap_map                                                 *)
(***************************************************************************)
\* is_dupe of one project: "duplicate" in scope or "cancelled" in scope.
IsDupe(p) ==
    LET scope == Lower(p.brief_scope_of_work)
    IN  Contains(scope, "duplicate") \/ Contains(scope, "cancelled")

\* Mutant of StoreMapWrites: the first project of a store is never replaced.
StoreMapWrites_firstOnly(store_map, p) == p.store \notin DOMAIN store_map

\* Mutant of StoreMapWrites: an active project overwrites whatever its scope
\* says.
StoreMapWrites_scopeIgnored(store_map, p) ==
    \/ p.store \notin DOMAIN store_map
    \/ LowerAtom(p.project_status) = "active"

\* The condition under which a project (over)writes its store's entry.
StoreMapWrites(store_map, p) ==
    \/ p.store \notin DOMAIN store_map
    \/ (~IsDupe(p) /\ LowerAtom(p.project_status) = "active")

\* One iteration of the loop over projects.
StoreMapStep(store_map, p) ==
    IF p.store = << >> \/ Falsy(p.sap_project_definition)
    THEN store_map
    ELSE IF StoreMapWrites(store_map, p)
         THEN DictSet(store_map, p.store, p.sap_project_definition)
         ELSE store_map

RECURSIVE StoreMapFrom(_, _, _)
StoreMapFrom(store_map, projects, i) ==
    IF i > Len(projects) THEN store_map
    ELSE StoreMapFrom(StoreMapStep(store_map, projects[i]), projects, i + 1)

BuildStoreToSapMap(projects) == StoreMapFrom(EmptyDict, projects, 1)

(***************************************************************************)
(* pull_sams_umbrella_pos: attribution of the umbrella feed's rows         *)
(***************************************************************************)
\* _ITEM_TEXT_STORE_RE = ^(\d+)UCOTank, IGNORECASE, applied with match().
ItemTextMatches(item_text) ==
    LET n == DigitRun(item_text, 1)
    IN  n >= 1 /\ n + 1 <= Len(item_text) /\ LowerAtom(item_text[n + 1]) = "ucotank"

ItemTextStore(item_text) == SubSeq(item_text, 1, DigitRun(item_text, 1))

\* str(row["store_nbr"]); None prints as "None".
StrOfStore(store_nbr) == IF store_nbr = << >> THEN <<"None">> ELSE store_nbr

\* Mutant of RealStore: the item text is not consulted.
RealStore_rawField(row) == StrOfStore(row.store_nbr)

RealStore(row) ==
    IF ItemTextMatches(row.item_text)
    THEN ItemTextStore(row.item_text)
    ELSE StrOfStore(row.store_nbr)

\* The PO record the loop appends for a row that has a cost center.
UmbrellaPo(row, sap_def) ==
    [po_number |-> row.po_number,
     sap_project_definition |-> sap_def,
     vendor |-> row.vendor,
     po_total |-> OrZero(row.po_total),
     invoiced_to_date |-> OrZero(row.invoiced_to_date),
     remaining_to_invoice |-> OrZero(row.remaining_to_invoice)]

\* Mutant of MapUmbrellaFrom: the first row whose store has no cost center
\* ends the loop.
RECURSIVE MapUmbrellaFrom_stopsAtUnmapped(_, _, _)
MapUmbrellaFrom_stopsAtUnmapped(raw_rows, store_to_sap, i) ==
    IF i > Len(raw_rows) THEN << >>
    ELSE LET row == raw_rows[i]
             real_store == RealStore(row)
         IN  IF real_store \in DOMAIN store_to_sap
             THEN <<UmbrellaPo(row, store_to_sap[real_store])>>
                    \o MapUmbrellaFrom_stopsAtUnmapped(raw_rows, store_to_sap,
                                                       i + 1)
             ELSE << >>

\* Mutant of MapUmbrellaFrom: a row whose embedded store has no cost center
\* is looked up by its raw store field.
RECURSIVE MapUmbrellaFrom_fallsBack(_, _, _)
MapUmbrellaFrom_fallsBack(raw_rows, store_to_sap, i) ==
    IF i > Len(raw_rows) THEN << >>
    ELSE LET row == raw_rows[i]
             real_store == IF RealStore(row) \in DOMAIN store_to_sap
                           THEN RealStore(row)
                           ELSE StrOfStore(row.store_nbr)
             rest == MapUmbrellaFrom_fallsBack(raw_rows, store_to_sap, i + 1)
         IN  IF real_store \in DOMAIN store_to_sap
             THEN <<UmbrellaPo(row, store_to_sap[real_store])>> \o rest
             ELSE rest

RECURSIVE MapUmbrellaFrom(_, _, _)
MapUmbrellaFrom(raw_rows, store_to_sap, i) ==
    IF i > Len(raw_rows) THEN << >>
    ELSE LET row == raw_rows[i]
             real_store == RealStore(row)
             rest == MapUmbrellaFrom(raw_rows, store_to_sap, i + 1)
         IN  IF real_store \in DOMAIN store_to_sap
             THEN <<UmbrellaPo(row, store_to_sap[real_store])>> \o rest
             ELSE rest

PullSamsUmbrellaPos(raw_rows, store_to_sap) ==
    MapUmbrellaFrom(raw_rows, store_to_sap, 1)

(***************************************************************************)
(* _parse_comment_po_map and pull_comment_referenced_pos                   *)
(***************************************************************************)
PoDigits == 8                        \* \d{8} of _COMMENT_PO_RE

CommentLabels == {"aptim", "installer"}

\* _COMMENT_PO_RE = (?:APTIM|INSTALLER)\s+PO#?\s*(\d{8}), IGNORECASE.
\* Position of the captured number when the pattern matches at atom i,
\* 0 when it does not.
CommentMatchAt(text, i) ==
    IF i > Len(text) \/ LowerAtom(text[i]) \notin CommentLabels THEN 0
    ELSE LET s == SpaceRun(text, i + 1)
             j == i + 1 + s
         IN  IF s = 0 \/ j > Len(text) \/ LowerAtom(text[j]) # "po" THEN 0
             ELSE LET k == IF j + 1 <= Len(text) /\ text[j + 1] = "#"
                           THEN j + 2 ELSE j + 1
                      m == k + SpaceRun(text, k)
                  IN  IF DigitRun(text, m) >= PoDigits THEN m ELSE 0

\* _COMMENT_PO_RE.findall(text): the captured numbers, left to right,
\* matches not overlapping.
RECURSIVE FindAllFrom(_, _)
FindAllFrom(text, i) ==
    IF i > Len(text) THEN << >>
    ELSE LET m == CommentMatchAt(text, i)
         IN  IF m = 0 THEN FindAllFrom(text, i + 1)
             ELSE <<SubSeq(text, m, m + PoDigits - 1)>>
                  \o FindAllFrom(text, m + PoDigits)

FindAllCommentPos(text) == FindAllFrom(text, 1)

\* comments.strip() is empty.
IsBlank(text) == \A i \in 1..Len(text) : IsSpace(text[i])

\* The commentary _parse_comment_po_map reads from a project.
\* Mutant of MinedComments: both commentary fields are read.
MinedComments_bothFields(p) ==
    p.pmo_sr_pm_comments \o <<" ">> \o p.cec_comments

MinedComments(p) == p.pmo_sr_pm_comments

RECURSIVE DictSetAll(_, _, _, _)
DictSetAll(d, keys, v, i) ==
    IF i > Len(keys) THEN d
    ELSE DictSetAll(DictSet(d, keys[i], v), keys, v, i + 1)

\* Mutant of CommentMapStep: a PO number keeps the first project that named it.
CommentMapStep_firstWins(po_to_sap, p) ==
    IF IsBlank(MinedComments(p)) \/ Falsy(p.sap_project_definition)
    THEN po_to_sap
    ELSE LET found == FindAllCommentPos(MinedComments(p))
             fresh == SelectSeq(found, LAMBDA n : n \notin DOMAIN po_to_sap)
         IN  DictSetAll(po_to_sap, fresh, p.sap_project_definition, 1)

\* Mutant of CommentMapStep: a project without a cost-center key is not
\* skipped.
CommentMapStep_keylessKept(po_to_sap, p) ==
    IF IsBlank(MinedComments(p))
    THEN po_to_sap
    ELSE DictSetAll(po_to_sap, FindAllCommentPos(MinedComments(p)),
                    p.sap_project_definition, 1)

\* One iteration of the loop over projects.
CommentMapStep(po_to_sap, p) ==
    IF IsBlank(MinedComments(p)) \/ Falsy(p.sap_project_definition)
    THEN po_to_sap
    ELSE DictSetAll(po_to_sap, FindAllCommentPos(MinedComments(p)),
                    p.sap_project_definition, 1)

RECURSIVE CommentMapFrom(_, _, _)
CommentMapFrom(po_to_sap, projects, i) ==
    IF i > Len(projects) THEN po_to_sap
    ELSE CommentMapFrom(CommentMapStep(po_to_sap, projects[i]), projects, i + 1)

ParseCommentPoMap(projects) == CommentMapFrom(EmptyDict, projects, 1)

\* missing = {po for po in po_to_sap if po not in existing_po_numbers}
MissingPos(po_to_sap, existing_po_numbers) ==
    {po \in DOMAIN po_to_sap : po \notin existing_po_numbers}

\* SUM(..) > 0 of a HAVING clause; a NULL sum compares as not true.
Positive(a) == a # NoAmt /\ Num(a) > 0

\* The rows the fetch by PO number returns from the purchase-order view
\* (po_table: its rows grouped by po_nbr, vendor_name).
FetchByPoNumber(po_table, missing) ==
    SelectSeq(po_table, LAMBDA row :
        /\ row.po_number \in missing
        /\ (Positive(row.po_total) \/ Positive(row.invoiced_to_date)))

\* The PO record built for one fetched row.
RecoveredPo(row, po_to_sap) ==
    [po_number |-> row.po_number,
     sap_project_definition |-> po_to_sap[row.po_number],
     vendor |-> row.vendor,
     po_total |-> OrZero(row.po_total),
     invoiced_to_date |-> OrZero(row.invoiced_to_date),
     remaining_to_invoice |-> OrZero(row.remaining_to_invoice)]

\* Mutant of CommentFetches: a fetch that returns fewer rows than PO numbers
\* asked for is followed by a fetch of the numbers not returned.
CommentFetches_retriesShortfall(po_table, po_to_sap, existing_po_numbers) ==
    LET missing == MissingPos(po_to_sap, existing_po_numbers)
        results == FetchByPoNumber(po_table, missing)
        got == {results[i].po_number : i \in 1..Len(results)}
    IN  IF missing = {} THEN << >>
        ELSE IF got # missing THEN <<missing, missing \ got>>
        ELSE <<missing>>

\* The IN lists of the client.query() calls of pull_comment_referenced_pos:
\* none after the early return, else the one query for sorted(missing).
CommentFetches(po_table, po_to_sap, existing_po_numbers) ==
    LET missing == MissingPos(po_to_sap, existing_po_numbers)
    IN  IF missing = {} THEN << >> ELSE <<missing>>

PullCommentReferencedPos(po_table, po_to_sap, existing_po_numbers) ==
    LET missing == MissingPos(po_to_sap, existing_po_numbers)
        results == FetchByPoNumber(po_table, missing)
    IN  IF missing = {} THEN << >>
        ELSE [i \in 1..Len(results) |-> RecoveredPo(results[i], po_to_sap)]

(***************************************************************************)
(* run_etl: the two merge loops                                            *)
(***************************************************************************)
PoNumbers(pos) == {pos[i].po_number : i \in 1..Len(pos)}

\* for po in new: if po["po_number"] not in existing: pos.append(po);
\* existing.add(po["po_number"])
RECURSIVE MergeFrom(_, _, _, _)
MergeFrom(pos, existing, new, i) ==
    IF i > Len(new) THEN [pos |-> pos, existing |-> existing]
    ELSE IF new[i].po_number \notin existing
         THEN MergeFrom(Append(pos, new[i]), existing \cup {new[i].po_number},
                        new, i + 1)
         ELSE MergeFrom(pos, existing, new, i + 1)

MergePos(pos, existing, new) == MergeFrom(pos, existing, new, 1)

(***************************************************************************)
(* load_to_sqlite                                                          *)
(***************************************************************************)
EmptyDb == [projects |-> << >>, sap_budget |-> << >>, sap_po |-> << >>]

\* Mutant of ClearTables: the PO table is not cleared.
ClearTables_keepsPos(db) == [db EXCEPT !.sap_budget = << >>, !.projects = << >>]

\* DELETE FROM sap_po; DELETE FROM sap_budget; DELETE FROM projects
ClearTables(db) ==
    [db EXCEPT !.sap_po = << >>, !.sap_budget = << >>, !.projects = << >>]

HasKey(table, column, value) == \E i \in 1..Len(table) : table[i][column] = value

\* INSERT OR IGNORE on a table whose primary key is `column`.
InsertOrIgnore(table, column, row) ==
    IF HasKey(table, column, row[column]) THEN table ELSE Append(table, row)

\* INSERT OR REPLACE: the row that holds the key is deleted, the new one added.
InsertOrReplace(table, column, row) ==
    Append(SelectSeq(table, LAMBDA r : r[column] # row[column]), row)

\* The projects row written for an input project.
ProjectRow(p) ==
    [project_id |-> p.project_id,
     store |-> p.store,
     project_status |-> p.project_status,
     sap_project_definition |-> p.sap_project_definition,
     brief_scope_of_work |-> p.brief_scope_of_work,
     general_contractor |-> p.general_contractor,
     pmo_sr_pm_comments |-> p.pmo_sr_pm_comments,
     cec_comments |-> p.cec_comments]

\* budget_total = (sap_actuals or 0) + (sap_open_commitments or 0)
BudgetTotal(p) == Num(OrZero(p.sap_actuals)) + Num(OrZero(p.sap_open_commitments))

\* The sap_budget row written for an input project that has a cost center.
\* Mutant of BudgetRow: a total of zero is kept as it is.
BudgetRow_zeroKept(p) ==
    [sap_project_definition |-> p.sap_project_definition,
     budget_total |-> IF BudgetTotal(p) >= 0 THEN Amt(BudgetTotal(p))
                      ELSE OrZero(p.total_contract_amount),
     budget_open |-> OrZero(p.sap_open_commitments),
     budget_committed |-> OrZero(p.contractor_po_amount),
     budget_actuals |-> OrZero(p.sap_actuals)]

BudgetRow(p) ==
    [sap_project_definition |-> p.sap_project_definition,
     budget_total |-> IF BudgetTotal(p) > 0 THEN Amt(BudgetTotal(p))
                      ELSE OrZero(p.total_contract_amount),
     budget_open |-> OrZero(p.sap_open_commitments),
     budget_committed |-> OrZero(p.contractor_po_amount),
     budget_actuals |-> OrZero(p.sap_actuals)]

\* One iteration of `for p in projects`.
InsertProject(db, p) ==
    [db EXCEPT
       !.projects = InsertOrIgnore(@, "project_id", ProjectRow(p)),
       !.sap_budget = IF Falsy(p.sap_project_definition) THEN @
                      ELSE InsertOrReplace(@, "sap_project_definition", BudgetRow(p))]

RECURSIVE InsertProjectsFrom(_, _, _)
InsertProjectsFrom(db, projects, i) ==
    IF i > Len(projects) THEN db
    ELSE InsertProjectsFrom(InsertProject(db, projects[i]), projects, i + 1)

\* The sap_po row written for a merged PO record.
PoRow(po) ==
    [po_number |-> po.po_number,
     sap_project_definition |-> po.sap_project_definition,
     vendor |-> po.vendor,
     po_total |-> OrZero(po.po_total),
     invoiced_to_date |-> OrZero(po.invoiced_to_date),
     remaining_to_invoice |-> OrZero(po.remaining_to_invoice)]

RECURSIVE InsertPosFrom(_, _, _)
InsertPosFrom(db, pos, i) ==
    IF i > Len(pos) THEN db
    ELSE InsertPosFrom(
           [db EXCEPT !.sap_po = InsertOrIgnore(@, "po_number", PoRow(pos[i]))],
           pos, i + 1)

\* SELECT DISTINCT sap_project_definition FROM sap_po
LinkedSaps(sap_po) ==
    {sap_po[i].sap_project_definition : i \in 1..Len(sap_po)}

VendorsOf(sap_po, sap) ==
    {sap_po[i].vendor : i \in {j \in 1..Len(sap_po) :
                                 sap_po[j].sap_project_definition = sap}}

\* Mutant of VendorTotal: MAX(po.po_total) instead of SUM(po.po_total).
RECURSIVE VendorMaxFrom(_, _, _, _)
VendorMaxFrom(sap_po, sap, vendor, i) ==
    IF i > Len(sap_po) THEN 0
    ELSE LET rest == VendorMaxFrom(sap_po, sap, vendor, i + 1)
             here == IF sap_po[i].sap_project_definition = sap
                        /\ sap_po[i].vendor = vendor
                     THEN Num(sap_po[i].po_total) ELSE 0
         IN  IF here > rest THEN here ELSE rest

VendorTotal_largestPo(sap_po, sap, vendor) == VendorMaxFrom(sap_po, sap, vendor, 1)

\* SUM(po.po_total) of one vendor's group within one cost center.
RECURSIVE VendorTotalFrom(_, _, _, _)
VendorTotalFrom(sap_po, sap, vendor, i) ==
    IF i > Len(sap_po) THEN 0
    ELSE (IF sap_po[i].sap_project_definition = sap /\ sap_po[i].vendor = vendor
          THEN Num(sap_po[i].po_total) ELSE 0)
         + VendorTotalFrom(sap_po, sap, vendor, i + 1)

VendorTotal(sap_po, sap, vendor) == VendorTotalFrom(sap_po, sap, vendor, 1)

\* Whether vendor v comes before every other group under
\* ORDER BY SUM(po.po_total) DESC, ties aside.
RanksFirst(sap_po, sap, v) ==
    \A w \in VendorsOf(sap_po, sap) :
        VendorTotal(sap_po, sap, v) >= VendorTotal(sap_po, sap, w)

\* GROUP BY po.vendor ORDER BY SUM(po.po_total) DESC LIMIT 1.  Among groups
\* with equal sums SQLite returns one fixed by the set of tied groups.
PrimaryVendor(sap_po, sap) ==
    CHOOSE v \in VendorsOf(sap_po, sap) : RanksFirst(sap_po, sap, v)

\* Mutant of BackfillContractor: only a project without a contractor gets the
\* vendor.
BackfillContractor_onlyMissing(db) ==
    LET Backfilled(row) ==
            IF row.sap_project_definition # NULL
               /\ row.sap_project_definition \in LinkedSaps(db.sap_po)
               /\ row.general_contractor = NULL
            THEN [row EXCEPT !.general_contractor =
                     PrimaryVendor(db.sap_po, row.sap_project_definition)]
            ELSE row
    IN  [db EXCEPT !.projects =
            [i \in 1..Len(db.projects) |-> Backfilled(db.projects[i])]]

\* UPDATE projects SET general_contractor = (...) WHERE
\* sap_project_definition IN (SELECT DISTINCT ... FROM sap_po)
BackfillContractor(db) ==
    LET Backfilled(row) ==
            IF row.sap_project_definition # NULL
               /\ row.sap_project_definition \in LinkedSaps(db.sap_po)
            THEN [row EXCEPT !.general_contractor =
                     PrimaryVendor(db.sap_po, row.sap_project_definition)]
            ELSE row
    IN  [db EXCEPT !.projects =
            [i \in 1..Len(db.projects) |-> Backfilled(db.projects[i])]]

LoadToSqlite(db, projects, pos) ==
    BackfillContractor(
        InsertPosFrom(InsertProjectsFrom(ClearTables(db), projects, 1), pos, 1))

(***************************************************************************)
(* Upstream data: what the four BigQuery pulls return                      *)
(***************************************************************************)
MaxProjects == 2                     \* rows pull_projects returns
MaxDirect == 2                       \* rows pull_purchase_orders returns
MaxUmbrella == 2                     \* rows of the umbrella feed
MaxFetched == 1                      \* rows of the view the fetch by number reads

PO1 == <<"4", "0", "0", "0", "0", "0", "0", "1">>
PO2 == <<"4", "0", "0", "0", "0", "0", "0", "2">>
PO3 == <<"4", "0", "0", "0", "0", "0", "0", "3">>
PO4 == <<"4", "0", "0", "0", "0", "0", "0", "4">>
PO5 == <<"4", "0", "0", "0", "0", "0", "0", "5">>
PO6 == <<"4", "0", "0", "0", "0", "0", "0", "6">>

\* SUM(net_po_lc_amt) - SUM(invoiced_lc_amt): NULL when either sum is NULL.
SqlMinus(a, b) == IF a = NoAmt \/ b = NoAmt THEN NoAmt ELSE Amt(Num(a) - Num(b))

\* A row of pull_purchase_orders' query.
DirectRow(po_number, sap, vendor, po_total, invoiced) ==
    [po_number |-> po_number, sap_project_definition |-> sap, vendor |-> vendor,
     po_total |-> po_total, invoiced_to_date |-> invoiced,
     remaining_to_invoice |-> SqlMinus(po_total, invoiced)]

\* A row of pull_sams_umbrella_pos' query.
UmbrellaRow(store_nbr, po_number, vendor, item_text, po_total, invoiced) ==
    [store_nbr |-> store_nbr, po_number |-> po_number, vendor |-> vendor,
     item_text |-> item_text, po_total |-> po_total,
     invoiced_to_date |-> invoiced,
     remaining_to_invoice |-> SqlMinus(po_total, invoiced)]

\* A row of the purchase-order view grouped as pull_comment_referenced_pos'
\* query groups it, before its WHERE and HAVING.
ViewRow(po_number, vendor, po_total, invoiced) ==
    [po_number |-> po_number, vendor |-> vendor, po_total |-> po_total,
     invoiced_to_date |-> invoiced,
     remaining_to_invoice |-> SqlMinus(po_total, invoiced)]

\* Two projects of store 1: an active one with a clean scope, and one whose
\* scope says it was cancelled.  Both mention PO 40000004 in their commentary.
ProjClean ==
    [lx_project_entity_id |-> Amt(101), record_id_nbr |-> Amt(1),
     store |-> <<"1">>, project_status |-> "Active",
     sap_project_definition |-> "USFC-A",
     brief_scope_of_work |-> <<"replace", " ", "tank">>,
     contractor |-> NULL,
     pmo_sr_pm_comments |-> <<"APTIM", " ", "PO", "#", " ">> \o PO4,
     cec_comments |-> << >>,
     sap_actuals |-> Amt(2), sap_open_commitments |-> Amt(1),
     total_contract_amount |-> Amt(5), contractor_po_amount |-> NoAmt]

ProjCancelled ==
    [lx_project_entity_id |-> Amt(102), record_id_nbr |-> Amt(2),
     store |-> <<"1">>, project_status |-> "Active",
     sap_project_definition |-> "USFC-B",
     brief_scope_of_work |-> <<"CANCELLED", " ", "see", " ", "1", "0", "1">>,
     contractor |-> "Acme",
     pmo_sr_pm_comments |-> <<"see", " ", "Installer", " ", "PO">> \o PO4,
     cec_comments |-> << >>,
     sap_actuals |-> NoAmt, sap_open_commitments |-> NoAmt,
     total_contract_amount |-> Amt(4), contractor_po_amount |-> Amt(1)]

\* A second tracking record of cost center USFC-A (so of the same document-
\* system entity, 101), at store 2.
ProjDuplicate ==
    [lx_project_entity_id |-> Amt(101), record_id_nbr |-> Amt(3),
     store |-> <<"2">>, project_status |-> "Complete",
     sap_project_definition |-> "USFC-A",
     brief_scope_of_work |-> <<"Duplicate">>,
     contractor |-> "",
     pmo_sr_pm_comments |-> << >>,
     cec_comments |-> <<"APTIM", " ", "PO", "#">> \o PO5,
     sap_actuals |-> Amt(-1), sap_open_commitments |-> NoAmt,
     total_contract_amount |-> NoAmt, contractor_po_amount |-> Amt(3)]

\* A project whose cost-center key is the empty string.
ProjUnlinked ==
    [lx_project_entity_id |-> Amt(104), record_id_nbr |-> Amt(4),
     store |-> <<"2">>, project_status |-> "Cancelled",
     sap_project_definition |-> "",
     brief_scope_of_work |-> << >>,
     contractor |-> "Acme",
     pmo_sr_pm_comments |-> <<"APTIM", " ", "PO", "#">> \o PO5,
     cec_comments |-> << >>,
     sap_actuals |-> NoAmt, sap_open_commitments |-> NoAmt,
     total_contract_amount |-> NoAmt, contractor_po_amount |-> NoAmt]

ProjectPool == {ProjClean, ProjCancelled, ProjDuplicate, ProjUnlinked}

\* Direct rows pass the query's HAVING: a positive total or invoiced sum.
\* The query groups by PO number, cost center and vendor, so one PO number
\* can come back once per cost center its lines are booked to.
DirectA1 == DirectRow(PO1, "USFC-A", "V1", Amt(2), Amt(1))
DirectB1 == DirectRow(PO1, "USFC-B", "V1", Amt(1), NoAmt)
DirectA2 == DirectRow(PO2, "USFC-A", "V1", Amt(2), Amt(0))

DirectPool == {DirectA1, DirectB1, DirectA2}

\* Umbrella rows: one booked to hub store 2 with the real store, 1, in its
\* item text; one whose PO number the direct pull also returns; one whose
\* item text names a store no project has.
UmbrellaHub == UmbrellaRow(<<"2">>, PO3, "V2", <<"1", "UCOTank", "s">>, Amt(3), Amt(3))
UmbrellaPlain == UmbrellaRow(<<"1">>, PO1, "V2", <<"ACC">>, Amt(1), NoAmt)
UmbrellaStray == UmbrellaRow(<<"1">>, PO6, "V3", <<"9", "ucoTank">>, NoAmt, Amt(2))

UmbrellaPool == {UmbrellaHub, UmbrellaPlain, UmbrellaStray}

ViewV2 == ViewRow(PO4, "V2", Amt(5), NoAmt)
ViewV3 == ViewRow(PO4, "V3", Amt(1), Amt(1))
ViewIdle == ViewRow(PO4, "V1", Amt(0), NoAmt)

ViewPool == {ViewV2, ViewV3, ViewIdle}

\* The lists of at most n distinct rows of a pool, in every order.
ListsOf(pool, n) ==
    UNION { {q \in [1..k -> pool] : \A i, j \in 1..k : i # j => q[i] # q[j]} :
            k \in 0..n }

\* What a freshness query does: it returns MAX of the source's update times
\* (NULL for a source without rows), or it raises.
Answers(value) == [raises |-> FALSE, value |-> value]
Raises == [raises |-> TRUE, value |-> NoAmt]

FreshnessAllKnown ==
    [k \in {"lucernex_projects", "fmpm_projects", "sap_purchase_orders"} |->
        Answers(Amt(1))]

FreshnessMixed ==
    [FreshnessAllKnown EXCEPT !["fmpm_projects"] = Answers(NoAmt),
                              !["sap_purchase_orders"] = Raises]

FreshnessFirstDown ==
    [FreshnessAllKnown EXCEPT !["lucernex_projects"] = Raises,
                              !["sap_purchase_orders"] = Answers(Amt(2))]

\* The number a string of digits writes.
DigitValue(a) == CHOOSE n \in 0..9 : ToString(n) = a

RECURSIVE NumberOf(_)
NumberOf(digits) ==
    IF digits = << >> THEN 0
    ELSE 10 * NumberOf(SubSeq(digits, 1, Len(digits) - 1))
           + DigitValue(digits[Len(digits)])

\* ORDER BY po.store_nbr, po.po_nbr
UmbrellaOrdered(rows) ==
    \A i, j \in 1..Len(rows) :
        i < j => \/ NumberOf(rows[i].store_nbr) < NumberOf(rows[j].store_nbr)
                 \/ /\ rows[i].store_nbr = rows[j].store_nbr
                    /\ NumberOf(rows[i].po_number) <= NumberOf(rows[j].po_number)

Upstreams ==
    [projects : ListsOf(ProjectPool, MaxProjects),
     direct : ListsOf(DirectPool, MaxDirect),
     umbrella : {q \in ListsOf(UmbrellaPool, MaxUmbrella) : UmbrellaOrdered(q)},
     po_view : ListsOf(ViewPool, MaxFetched),
     freshness : {FreshnessMixed}]

\* The upstream states the refresh endpoint is exercised against.
ServerUpstreams ==
    { [projects |-> <<ProjCancelled, ProjClean>>, direct |-> <<DirectA1, DirectA2>>,
       umbrella |-> <<UmbrellaHub>>, po_view |-> <<ViewV2>>,
       freshness |-> FreshnessFirstDown],
      [projects |-> <<ProjDuplicate>>, direct |-> <<DirectB1>>,
       umbrella |-> <<UmbrellaPlain>>, po_view |-> << >>,
       freshness |-> FreshnessMixed],
      [projects |-> << >>, direct |-> << >>, umbrella |-> << >>, po_view |-> << >>,
       freshness |-> FreshnessAllKnown] }

(***************************************************************************)
(* State                                                                   *)
(***************************************************************************)
NumRequests == 2                     \* clients that post to /api/refresh
MaxClock == 2                        \* the last time the clock reaches

CLI == 0                             \* `python etl.py`
Requests == 1..NumRequests
Runners == {CLI} \cup Requests

VARIABLES
    upstream,      \* what the BigQuery views hold
    db,            \* dashboard.db: projects, sap_budget, sap_po
    etl_lock,      \* main._etl_lock
    request,       \* per client: "none", "sent" (handler not yet run), "awaiting"
    response,      \* per client: the last answer, "none" before the first
    run,           \* per runner: run_etl's position and locals
    loaded_from,   \* history: the upstream state the tables were last loaded from
    refresh_metadata,  \* dashboard.db: the refresh_metadata table
    now,           \* the wall clock
    report,        \* the rows the last report query returned
    loaded_at,     \* history: the time of the last load_to_sqlite
    lucernex,      \* per project: the folders Lucernex holds and their documents
    lucernex_documents,  \* dashboard.db: lucernex_documents, by doc_id
    sync           \* etl_documents.py: sync_all_projects' locals; the last call

vars == <<upstream, db, etl_lock, request, response, run, loaded_from,
          refresh_metadata, now, report, loaded_at, lucernex,
          lucernex_documents, sync>>

\* Mutant of RunEtlStages: the load runs before the comment recovery.
RunEtlStages_loadEarly ==
    <<"pull_projects", "pull_purchase_orders", "pull_sams_umbrella_pos",
      "merge_sams", "load_to_sqlite", "pull_comment_referenced_pos",
      "merge_comment", "pull_wbs_node_budgets", "load_wbs_nodes",
      "record_refresh_metadata">>

\* Mutant of RunEtlStages: the umbrella POs are merged after the recovery.
RunEtlStages_recoveryFirst ==
    <<"pull_projects", "pull_purchase_orders", "pull_sams_umbrella_pos",
      "pull_comment_referenced_pos", "merge_sams", "merge_comment",
      "load_to_sqlite", "pull_wbs_node_budgets", "load_wbs_nodes",
      "record_refresh_metadata">>

\* The statements of run_etl, in program order.
RunEtlStages ==
    <<"pull_projects", "pull_purchase_orders", "pull_sams_umbrella_pos",
      "merge_sams", "pull_comment_referenced_pos", "merge_comment",
      "load_to_sqlite", "pull_wbs_node_budgets", "load_wbs_nodes",
      "record_refresh_metadata">>

StageIndex(stage) == CHOOSE i \in 1..Len(RunEtlStages) : RunEtlStages[i] = stage

NextStage(stage) ==
    IF StageIndex(stage) = Len(RunEtlStages) THEN "returned"
    ELSE RunEtlStages[StageIndex(stage) + 1]

\* run_etl's locals before its first statement.  db_at_start, src_at_start,
\* load_started and failed_at are history, not program state; so is fetched,
\* the IN lists of the fetches by PO number the run has issued.
IdleRun ==
    [pc |-> "idle", projects |-> << >>, pos |-> << >>,
     existing_po_numbers |-> {}, store_to_sap |-> EmptyDict, sams_pos |-> << >>,
     comment_po_map |-> EmptyDict, comment_pos |-> << >>,
     fetched |-> << >>,
     db_at_start |-> EmptyDb, src_at_start |-> << >>,
     load_started |-> FALSE, failed_at |-> "none"]

StartedRun ==
    [IdleRun EXCEPT !.pc = RunEtlStages[1], !.db_at_start = db,
                    !.src_at_start = loaded_from]

(***************************************************************************)
(* run_etl, one action per statement                                       *)
(***************************************************************************)
Advance(r, stage) == [run[r] EXCEPT !.pc = NextStage(stage)]

\* CAST(x AS STRING) of a number; NULL stays NULL.
CastString(x) == IF x = NoAmt THEN NULL ELSE ToString(Num(x))

\* COALESCE(a, b)
\* Mutant of Coalesce: the second argument is preferred.
Coalesce_preferSecond(a, b) == IF b # NULL THEN b ELSE a

Coalesce(a, b) == IF a # NULL THEN a ELSE b

\* The canonical project id of one row of the join.
CanonicalId(src) ==
    Coalesce(CastString(src.lx_project_entity_id), CastString(src.record_id_nbr))

\* CASE WHEN p.Contractor IS NOT NULL AND p.Contractor != '' THEN
\* p.Contractor ELSE NULL END
SourceContractor(src) ==
    IF src.contractor # NULL /\ src.contractor # "" THEN src.contractor ELSE NULL

\* The row pull_projects returns for one row of the join of the tracking
\* warehouse's projects with the document system's.
PulledProject(src) ==
    [project_id |-> CanonicalId(src),
     store |-> src.store,
     project_status |-> src.project_status,
     sap_project_definition |-> src.sap_project_definition,
     brief_scope_of_work |-> src.brief_scope_of_work,
     general_contractor |-> SourceContractor(src),
     pmo_sr_pm_comments |-> src.pmo_sr_pm_comments,
     cec_comments |-> src.cec_comments,
     sap_actuals |-> src.sap_actuals,
     sap_open_commitments |-> src.sap_open_commitments,
     total_contract_amount |-> src.total_contract_amount,
     contractor_po_amount |-> src.contractor_po_amount]

PullProjectsRows(rows) == [i \in 1..Len(rows) |-> PulledProject(rows[i])]

\* projects = pull_projects(client)
PullProjects(r) ==
    /\ run[r].pc = "pull_projects"
    /\ run' = [run EXCEPT ![r] =
                 [Advance(r, "pull_projects") EXCEPT !.projects =
                        PullProjectsRows(upstream.projects)]]
    /\ UNCHANGED <<upstream, db, etl_lock, request, response, loaded_from,
                   refresh_metadata, now, report,
                   loaded_at, lucernex, lucernex_documents, sync>>

\* pos = pull_purchase_orders(client)
PullPurchaseOrders(r) ==
    /\ run[r].pc = "pull_purchase_orders"
    /\ run' = [run EXCEPT ![r] =
                 [Advance(r, "pull_purchase_orders") EXCEPT !.pos = upstream.direct]]
    /\ UNCHANGED <<upstream, db, etl_lock, request, response, loaded_from,
                   refresh_metadata, now, report,
                   loaded_at, lucernex, lucernex_documents, sync>>

\* store_to_sap = _build_store_to_sap_map(projects)
\* sams_pos = pull_sams_umbrella_pos(client, store_to_sap)
PullSamsUmbrella(r) ==
    /\ run[r].pc = "pull_sams_umbrella_pos"
    /\ LET store_to_sap == BuildStoreToSapMap(run[r].projects)
       IN  run' = [run EXCEPT ![r] =
                     [Advance(r, "pull_sams_umbrella_pos") EXCEPT
                        !.store_to_sap = store_to_sap,
                        !.sams_pos = PullSamsUmbrellaPos(upstream.umbrella,
                                                         store_to_sap)]]
    /\ UNCHANGED <<upstream, db, etl_lock, request, response, loaded_from,
                   refresh_metadata, now, report,
                   loaded_at, lucernex, lucernex_documents, sync>>

\* Mutant of ExistingPoNumbers: the PO numbers already in the table count too.
ExistingPoNumbers_withTable(pos) == PoNumbers(pos) \cup PoNumbers(db.sap_po)

\* existing_po_numbers = {po["po_number"] for po in pos}
ExistingPoNumbers(pos) == PoNumbers(pos)

\* The loop that merges sams_pos into pos.
MergeSams(r) ==
    /\ run[r].pc = "merge_sams"
    /\ LET merged == MergePos(run[r].pos, ExistingPoNumbers(run[r].pos),
                              run[r].sams_pos)
       IN  run' = [run EXCEPT ![r] =
                     [Advance(r, "merge_sams") EXCEPT
                        !.pos = merged.pos,
                        !.existing_po_numbers = merged.existing]]
    /\ UNCHANGED <<upstream, db, etl_lock, request, response, loaded_from,
                   refresh_metadata, now, report,
                   loaded_at, lucernex, lucernex_documents, sync>>

\* comment_po_map = _parse_comment_po_map(projects)
\* comment_pos = pull_comment_referenced_pos(client, comment_po_map, existing)
PullCommentReferenced(r) ==
    /\ run[r].pc = "pull_comment_referenced_pos"
    /\ LET comment_po_map == ParseCommentPoMap(run[r].projects)
       IN  run' = [run EXCEPT ![r] =
                     [Advance(r, "pull_comment_referenced_pos") EXCEPT
                        !.comment_po_map = comment_po_map,
                        !.fetched =
                            CommentFetches(upstream.po_view, comment_po_map,
                                           run[r].existing_po_numbers),
                        !.comment_pos =
                            PullCommentReferencedPos(upstream.po_view,
                                comment_po_map, run[r].existing_po_numbers)]]
    /\ UNCHANGED <<upstream, db, etl_lock, request, response, loaded_from,
                   refresh_metadata, now, report,
                   loaded_at, lucernex, lucernex_documents, sync>>

\* The loop that merges comment_pos into pos.
MergeComment(r) ==
    /\ run[r].pc = "merge_comment"
    /\ LET merged == MergePos(run[r].pos, run[r].existing_po_numbers,
                              run[r].comment_pos)
       IN  run' = [run EXCEPT ![r] =
                     [Advance(r, "merge_comment") EXCEPT
                        !.pos = merged.pos,
                        !.existing_po_numbers = merged.existing]]
    /\ UNCHANGED <<upstream, db, etl_lock, request, response, loaded_from,
                   refresh_metadata, now, report,
                   loaded_at, lucernex, lucernex_documents, sync>>

\* load_to_sqlite(projects, pos)
LoadStep(r) ==
    /\ run[r].pc = "load_to_sqlite"
    /\ db' = LoadToSqlite(db, run[r].projects, run[r].pos)
    /\ loaded_from' = <<upstream>>
    /\ loaded_at' = now
    /\ run' = [run EXCEPT ![r] =
                 [Advance(r, "load_to_sqlite") EXCEPT !.load_started = TRUE]]
    /\ UNCHANGED <<upstream, etl_lock, request, response, refresh_metadata, now,
                   report, lucernex, lucernex_documents, sync>>

\* wbs_nodes = pull_wbs_node_budgets(client); load_wbs_nodes(wbs_nodes);
\* _record_refresh_metadata(client).  The tables these write (sap_wbs_nodes,
\* refresh_metadata) are not part of db here.
PullWbsNodeBudgets(r) ==
    /\ run[r].pc = "pull_wbs_node_budgets"
    /\ run' = [run EXCEPT ![r] = Advance(r, "pull_wbs_node_budgets")]
    /\ UNCHANGED <<upstream, db, etl_lock, request, response, loaded_from,
                   refresh_metadata, now, report,
                   loaded_at, lucernex, lucernex_documents, sync>>

LoadWbsNodes(r) ==
    /\ run[r].pc = "load_wbs_nodes"
    /\ run' = [run EXCEPT ![r] = Advance(r, "load_wbs_nodes")]
    /\ UNCHANGED <<upstream, db, etl_lock, request, response, loaded_from,
                   refresh_metadata, now, report,
                   loaded_at, lucernex, lucernex_documents, sync>>

\* _SOURCE_FRESHNESS: the tracked sources, in the order the loop visits them.
SourceKeys == <<"lucernex_projects", "fmpm_projects", "sap_purchase_orders">>

SourceLabel(key) ==
    CASE key = "lucernex_projects" -> "Lucernex Projects"
      [] key = "fmpm_projects" -> "FMPM Projects"
      [] key = "sap_purchase_orders" -> "SAP Purchase Orders"

\* strftime("%Y-%m-%d %H:%M:%S UTC") of a time
FormatTime(t) == <<ToString(t), "UTC">>

\* The body of the try statement and its except clause: source_ts.
SourceTimestamp(answer) ==
    IF answer.raises THEN <<"Unknown">>
    ELSE IF answer.value = NoAmt THEN <<"Unknown">>
    ELSE FormatTime(Num(answer.value))

\* Mutant of RecordedMetadata: the first source whose query raises ends the
\* loop.
RECURSIVE RecordedMetadata_stopsAtFailure(_, _, _, _)
RecordedMetadata_stopsAtFailure(table, freshness, at, i) ==
    IF i > Len(SourceKeys) \/ freshness[SourceKeys[i]].raises THEN table
    ELSE RecordedMetadata_stopsAtFailure(
           InsertOrReplace(table, "source_key",
               [source_key |-> SourceKeys[i],
                source_label |-> SourceLabel(SourceKeys[i]),
                source_last_updated |-> SourceTimestamp(freshness[SourceKeys[i]]),
                dashboard_refreshed_at |-> FormatTime(at)]),
           freshness, at, i + 1)

\* for key, info in _SOURCE_FRESHNESS.items(): ... INSERT OR REPLACE INTO
\* refresh_metadata, from the i-th source on.
RECURSIVE RecordedMetadata(_, _, _, _)
RecordedMetadata(table, freshness, at, i) ==
    IF i > Len(SourceKeys) THEN table
    ELSE RecordedMetadata(
           InsertOrReplace(table, "source_key",
               [source_key |-> SourceKeys[i],
                source_label |-> SourceLabel(SourceKeys[i]),
                source_last_updated |-> SourceTimestamp(freshness[SourceKeys[i]]),
                dashboard_refreshed_at |-> FormatTime(at)]),
           freshness, at, i + 1)

\* _record_refresh_metadata(client).  After this last statement run_etl
\* returns and its locals are gone.
RecordRefreshMetadata(r) ==
    /\ run[r].pc = "record_refresh_metadata"
    /\ refresh_metadata' =
           RecordedMetadata(refresh_metadata, upstream.freshness, now, 1)
    /\ run' = [run EXCEPT ![r] =
                 [IdleRun EXCEPT !.pc = NextStage("record_refresh_metadata"),
                                 !.db_at_start = run[r].db_at_start,
                                 !.src_at_start = run[r].src_at_start,
                                 !.load_started = run[r].load_started]]
    /\ UNCHANGED <<upstream, db, etl_lock, request, response, loaded_from, now,
                   report,
                   loaded_at, lucernex, lucernex_documents, sync>>

\* The statements that query BigQuery; pull_comment_referenced_pos queries
\* only when some mined PO number is missing.
QueriesBigQuery(r) ==
    \/ run[r].pc \in {"pull_projects", "pull_purchase_orders",
                      "pull_sams_umbrella_pos", "pull_wbs_node_budgets"}
    \/ /\ run[r].pc = "pull_comment_referenced_pos"
       /\ MissingPos(ParseCommentPoMap(run[r].projects),
                     run[r].existing_po_numbers) # {}

\* A query raises: the exception leaves run_etl, no later statement runs.
PullRaises(r) ==
    /\ QueriesBigQuery(r)
    /\ run' = [run EXCEPT ![r] =
                 [IdleRun EXCEPT !.pc = "raised",
                                 !.failed_at = run[r].pc,
                                 !.db_at_start = run[r].db_at_start,
                                 !.src_at_start = run[r].src_at_start,
                                 !.load_started = run[r].load_started]]
    /\ UNCHANGED <<upstream, db, etl_lock, request, response, loaded_from,
                   refresh_metadata, now, report,
                   loaded_at, lucernex, lucernex_documents, sync>>

RunEtlStep(r) ==
    \/ PullProjects(r)
    \/ PullPurchaseOrders(r)
    \/ PullSamsUmbrella(r)
    \/ MergeSams(r)
    \/ PullCommentReferenced(r)
    \/ MergeComment(r)
    \/ LoadStep(r)
    \/ PullWbsNodeBudgets(r)
    \/ LoadWbsNodes(r)
    \/ RecordRefreshMetadata(r)
    \/ PullRaises(r)

(***************************************************************************)
(* etl_documents.py: the sync of the documents of Lucernex                 *)
(***************************************************************************)
\* What Lucernex holds: per project the folders of its tree, each with the
\* documents get_folder_documents lists.  Document d1 is filed under two
\* projects in LucernexLater, where project 101 has lost d2.
LucernexFirst ==
    [p \in {"101", "9", "10"} |->
        CASE p = "101" ->
               <<[folder_id |-> "f1",
                  docs |-> <<[doc_id |-> "d1", doc_name |-> "plan.pdf"]>>],
                 [folder_id |-> "f2",
                  docs |-> <<[doc_id |-> "d2", doc_name |-> "bid.pdf"]>>]>>
          [] p = "9" ->
               <<[folder_id |-> "f3",
                  docs |-> <<[doc_id |-> "d3", doc_name |-> "permit.pdf"]>>]>>
          [] OTHER -> << >>]

LucernexLater ==
    [LucernexFirst EXCEPT
        !["101"] = <<[folder_id |-> "f1",
                      docs |-> <<[doc_id |-> "d1", doc_name |-> "plan.pdf"]>>]>>,
        !["9"] = <<[folder_id |-> "f3",
                    docs |-> <<[doc_id |-> "d3", doc_name |-> "permit.pdf"],
                               [doc_id |-> "d1", doc_name |-> "copy.pdf"]>>]>>]

\* documents.append({...}) for the documents of the folders from the i-th
\* on, those in `failed` left out: the except clause around
\* get_folder_documents logs a folder's failure and goes on.
RECURSIVE WalkFrom(_, _, _, _)
WalkFrom(project_entity_id, folders, failed, i) ==
    IF i > Len(folders) THEN << >>
    ELSE (IF i \in failed THEN << >>
          ELSE [k \in 1..Len(folders[i].docs) |->
                  [doc_id |-> folders[i].docs[k].doc_id,
                   project_id |-> project_entity_id,
                   folder_id |-> folders[i].folder_id,
                   doc_name |-> folders[i].docs[k].doc_name]])
         \o WalkFrom(project_entity_id, folders, failed, i + 1)

\* The outcomes of fetch_all_documents_for_project: get_project_folders
\* raises, or the documents of the folders whose listing did not fail.
FetchOutcomes(project_entity_id) ==
    {[raises |-> TRUE, docs |-> << >>]}
      \cup {[raises |-> FALSE,
              docs |-> WalkFrom(project_entity_id, lucernex[project_entity_id],
                                failed, 1)] :
                failed \in SUBSET (1..Len(lucernex[project_entity_id]))}

\* Mutant of UpsertDocument: a stored row keeps its is_deleted.
UpsertDocument_flagKept(table, d) ==
    IF d.doc_id \in DOMAIN table
    THEN [table EXCEPT ![d.doc_id] = [@ EXCEPT !.doc_name = d.doc_name]]
    ELSE DictSet(table, d.doc_id,
                 [project_id |-> d.project_id, folder_id |-> d.folder_id,
                  doc_name |-> d.doc_name, is_deleted |-> 0])

\* INSERT INTO lucernex_documents ... ON CONFLICT(doc_id) DO UPDATE SET ...:
\* the update sets neither project_id nor folder_id.
UpsertDocument(table, d) ==
    IF d.doc_id \in DOMAIN table
    THEN [table EXCEPT ![d.doc_id] =
              [@ EXCEPT !.doc_name = d.doc_name, !.is_deleted = 0]]
    ELSE DictSet(table, d.doc_id,
                 [project_id |-> d.project_id, folder_id |-> d.folder_id,
                  doc_name |-> d.doc_name, is_deleted |-> 0])

RECURSIVE UpsertFrom(_, _, _)
UpsertFrom(table, docs, i) ==
    IF i > Len(docs) THEN table
    ELSE UpsertFrom(UpsertDocument(table, docs[i]), docs, i + 1)

\* The two UPDATE ... SET is_deleted = 1 statements.
SoftDelete(table, project_id, seen_ids) ==
    [id \in DOMAIN table |->
        IF seen_ids # {}
        THEN IF /\ table[id].project_id = project_id
                /\ id \notin seen_ids
                /\ table[id].is_deleted = 0
             THEN [table[id] EXCEPT !.is_deleted = 1] ELSE table[id]
        ELSE IF table[id].project_id = project_id /\ table[id].is_deleted = 0
             THEN [table[id] EXCEPT !.is_deleted = 1] ELSE table[id]]

\* sync_project_documents(project_id) once the documents are fetched.
SyncProjectDocuments(table, project_id, docs) ==
    SoftDelete(UpsertFrom(table, docs, 1), project_id,
               {docs[i].doc_id : i \in 1..Len(docs)})

\* The project ids that occur, in the order of SQLite's ORDER BY on the TEXT
\* column project_id: "10" < "101" < "9".
TextOrder == <<"10", "101", "9">>

\* SELECT project_id FROM projects ORDER BY project_id
OrderedProjectIds(projects) ==
    SelectSeq(TextOrder, LAMBDA id : HasKey(projects, "project_id", id))

\* No call of sync_project_documents yet.
NoCall == [project_id |-> NULL, raises |-> FALSE, docs |-> << >>,
           revived |-> {}, flip |-> FALSE]

\* sync_all_projects before it starts.  last is history: the last call of
\* sync_project_documents, what it fetched, and the documents of the project
\* it found soft-deleted and fetched again.
IdleSync ==
    [pc |-> "idle", rows |-> << >>, i |-> 1, attempted |-> << >>,
     errors |-> 0, last |-> NoCall]

\* One call of sync_project_documents with one outcome of the fetch: the
\* table after it and the record of the call.
CallSync(project_id, outcome) ==
    [table |-> IF outcome.raises THEN lucernex_documents
               ELSE SyncProjectDocuments(lucernex_documents, project_id,
                                         outcome.docs),
     last |-> [project_id |-> project_id, raises |-> outcome.raises,
               docs |-> outcome.docs,
               revived |->
                   {outcome.docs[k].doc_id : k \in
                      {j \in 1..Len(outcome.docs) :
                         /\ outcome.docs[j].doc_id \in DOMAIN lucernex_documents
                         /\ lucernex_documents[outcome.docs[j].doc_id]
                                .project_id = project_id
                         /\ lucernex_documents[outcome.docs[j].doc_id]
                                .is_deleted = 1}},
               flip |-> ~sync.last.flip]]

\* python etl_documents.py <project id>
SyncSingle ==
    /\ sync.pc = "idle"
    /\ \E project_id \in DOMAIN lucernex :
         \E outcome \in FetchOutcomes(project_id) :
             /\ lucernex_documents' = CallSync(project_id, outcome).table
             /\ sync' = [sync EXCEPT !.last = CallSync(project_id, outcome).last]
    /\ UNCHANGED <<upstream, db, etl_lock, request, response, run, loaded_from,
                   refresh_metadata, now, report, loaded_at, lucernex>>

\* sync_all_projects() up to its loop.
SyncAllStart ==
    /\ sync.pc = "idle"
    /\ sync' = [IdleSync EXCEPT !.pc = "looping",
                                !.rows = OrderedProjectIds(db.projects),
                                !.last = sync.last]
    /\ UNCHANGED <<upstream, db, etl_lock, request, response, run, loaded_from,
                   refresh_metadata, now, report, loaded_at, lucernex,
                   lucernex_documents>>

\* Mutant of NextIndex: an exception ends the loop.
NextIndex_stopsOnError(rows, i, raised) ==
    IF raised THEN Len(rows) + 1 ELSE i + 1

\* Where the for statement goes after the try statement: the except clause
\* counts the error and the loop goes on.
NextIndex(rows, i, raised) == i + 1

\* One iteration of the loop of sync_all_projects.
SyncAllStep ==
    /\ sync.pc = "looping"
    /\ sync.i <= Len(sync.rows)
    /\ \E outcome \in FetchOutcomes(sync.rows[sync.i]) :
         LET pid == sync.rows[sync.i]
         IN  /\ lucernex_documents' = CallSync(pid, outcome).table
             /\ sync' = [sync EXCEPT
                           !.i = NextIndex(sync.rows, sync.i, outcome.raises),
                           !.attempted = Append(@, pid),
                           !.errors = IF outcome.raises THEN @ + 1 ELSE @,
                           !.last = CallSync(pid, outcome).last]
    /\ UNCHANGED <<upstream, db, etl_lock, request, response, run, loaded_from,
                   refresh_metadata, now, report, loaded_at, lucernex>>

\* The loop is over: the summary is logged and sync_all_projects returns.
SyncAllEnd ==
    /\ sync.pc = "looping"
    /\ sync.i > Len(sync.rows)
    /\ sync' = [sync EXCEPT !.pc = "done"]
    /\ UNCHANGED <<upstream, db, etl_lock, request, response, run, loaded_from,
                   refresh_metadata, now, report, loaded_at, lucernex,
                   lucernex_documents>>

\* The process ends; the command can be given again.
SyncExit ==
    /\ sync.pc = "done"
    /\ sync' = [IdleSync EXCEPT !.last = sync.last]
    /\ UNCHANGED <<upstream, db, etl_lock, request, response, run, loaded_from,
                   refresh_metadata, now, report, loaded_at, lucernex,
                   lucernex_documents>>

\* Documents are filed and removed in Lucernex.
LucernexChanges ==
    /\ lucernex' \in {LucernexFirst, LucernexLater} \ {lucernex}
    /\ UNCHANGED <<upstream, db, etl_lock, request, response, run, loaded_from,
                   refresh_metadata, now, report, loaded_at,
                   lucernex_documents, sync>>

(***************************************************************************)
(* `python etl.py`: runs of the pipeline, the first on a fresh database     *)
(***************************************************************************)
InitIdle ==
    /\ db = EmptyDb
    /\ loaded_from = << >>
    /\ etl_lock = [running |-> FALSE, message |-> ""]
    /\ request = [c \in Requests |-> "none"]
    /\ response = [c \in Requests |-> "none"]
    /\ run = [r \in Runners |-> IdleRun]
    /\ refresh_metadata = << >>
    /\ now = 0
    /\ report = << >>
    /\ loaded_at = 0
    /\ lucernex = LucernexFirst
    /\ lucernex_documents = EmptyDict
    /\ sync = IdleSync

InitEtl ==
    /\ upstream \in Upstreams
    /\ InitIdle

\* if __name__ == "__main__": run_etl()
CliStart ==
    /\ run[CLI].pc = "idle"
    /\ run' = [run EXCEPT ![CLI] = StartedRun]
    /\ UNCHANGED <<upstream, db, etl_lock, request, response, loaded_from,
                   refresh_metadata, now, report,
                   loaded_at, lucernex, lucernex_documents, sync>>

\* The process ends after run_etl has returned; the command can be given
\* again.  (A run that raised ends the process too; what a next run finds then
\* is exercised through the refresh endpoint.)
CliExit ==
    /\ run[CLI].pc = "returned"
    /\ run' = [run EXCEPT ![CLI] = IdleRun]
    /\ UNCHANGED <<upstream, db, etl_lock, request, response, loaded_from,
                   refresh_metadata, now, report,
                   loaded_at, lucernex, lucernex_documents, sync>>

NextEtl == CliStart \/ RunEtlStep(CLI) \/ CliExit

SpecEtl == InitEtl /\ [][NextEtl]_vars

(***************************************************************************)
(* POST /api/refresh (main.api_refresh_data)                               *)
(***************************************************************************)
\* Mutant of IsRunning: the flag is never found set.
IsRunning_neverSet == FALSE

\* if _etl_lock["running"]:
IsRunning == etl_lock.running

\* A client posts a refresh request.
SendRefresh(c) ==
    /\ request[c] = "none"
    /\ request' = [request EXCEPT ![c] = "sent"]
    /\ UNCHANGED <<upstream, db, etl_lock, response, run, loaded_from,
                   refresh_metadata, now, report,
                   loaded_at, lucernex, lucernex_documents, sync>>

\* The handler finds the flag set and answers 409.
AnswerBusy(c) ==
    /\ request[c] = "sent"
    /\ IsRunning
    /\ request' = [request EXCEPT ![c] = "none"]
    /\ response' = [response EXCEPT ![c] = "busy"]
    /\ UNCHANGED <<upstream, db, etl_lock, run, loaded_from, refresh_metadata, now, report,
                   loaded_at, lucernex, lucernex_documents, sync>>

\* The handler sets the flag and awaits run_etl in a worker thread.  No
\* await separates the test of the flag from its assignment.
StartRefresh(c) ==
    /\ request[c] = "sent"
    /\ ~IsRunning
    /\ etl_lock' = [running |-> TRUE, message |-> ""]
    /\ request' = [request EXCEPT ![c] = "awaiting"]
    /\ run' = [run EXCEPT ![c] = StartedRun]
    /\ UNCHANGED <<upstream, db, response, loaded_from, refresh_metadata, now, report,
                   loaded_at, lucernex, lucernex_documents, sync>>

\* Mutant of ClearedLock: the flag stays as it is.
ClearedLock_flagKept(message) ==
    [running |-> etl_lock.running, message |-> message]

\* _etl_lock after the handler's last assignment to message and its finally
\* clause.
ClearedLock(message) == [running |-> FALSE, message |-> message]

\* run_etl returned: 200, then the finally clause clears the flag.
RefreshOk(c) ==
    /\ request[c] = "awaiting"
    /\ run[c].pc = "returned"
    /\ etl_lock' = ClearedLock("Refresh complete.")
    /\ request' = [request EXCEPT ![c] = "none"]
    /\ response' = [response EXCEPT ![c] = "ok"]
    /\ run' = [run EXCEPT ![c] = IdleRun]
    /\ UNCHANGED <<upstream, db, loaded_from, refresh_metadata, now, report,
                   loaded_at, lucernex, lucernex_documents, sync>>

\* run_etl raised: 500, then the finally clause clears the flag.
RefreshError(c) ==
    /\ request[c] = "awaiting"
    /\ run[c].pc = "raised"
    /\ etl_lock' = ClearedLock("Refresh failed")
    /\ request' = [request EXCEPT ![c] = "none"]
    /\ response' = [response EXCEPT ![c] = "error"]
    /\ run' = [run EXCEPT ![c] = IdleRun]
    /\ UNCHANGED <<upstream, db, loaded_from, refresh_metadata, now, report,
                   loaded_at, lucernex, lucernex_documents, sync>>

\* Time passes.
Tick ==
    /\ now < MaxClock
    /\ now' = now + 1
    /\ UNCHANGED <<upstream, db, etl_lock, request, response, run, loaded_from,
                   refresh_metadata, report,
                   loaded_at, lucernex, lucernex_documents, sync>>

\* SUM(column) over rows: NULL values are skipped, NULL when none is left.
RECURSIVE SqlSum(_, _)
SqlSum(rows, column) ==
    IF rows = << >> THEN NoAmt
    ELSE LET rest == SqlSum(Tail(rows), column)
             here == Head(rows)[column]
         IN  IF here = NoAmt THEN rest
             ELSE IF rest = NoAmt THEN here
             ELSE Amt(Num(here) + Num(rest))

\* Mutant of CoalesceAmt: the persisted summary is preferred to the sums
\* over the POs.
CoalesceAmt_summaryFirst(a, b) ==
    IF b # NoAmt THEN b ELSE IF a # NoAmt THEN a ELSE Amt(0)

\* COALESCE(a, b, 0) of amounts
CoalesceAmt(a, b) == IF a # NoAmt THEN a ELSE IF b # NoAmt THEN b ELSE Amt(0)

\* The row of po_agg that joins project row p: the sums over the sap_po rows
\* of p's cost center; NULLs when p has no cost center or it has no PO.
PoAgg(tables, p) ==
    LET linked == SelectSeq(tables.sap_po, LAMBDA po :
                      /\ p.sap_project_definition # NULL
                      /\ po.sap_project_definition = p.sap_project_definition)
    IN  [total_po |-> SqlSum(linked, "po_total"),
         total_invoiced |-> SqlSum(linked, "invoiced_to_date")]

\* The column of the sap_budget row that joins project row p, NULL if none.
BudgetColumn(tables, p, column) ==
    LET joined == SelectSeq(tables.sap_budget, LAMBDA b :
                      /\ p.sap_project_definition # NULL
                      /\ b.sap_project_definition = p.sap_project_definition)
    IN  IF joined = << >> THEN NoAmt ELSE joined[1][column]

\* One row of get_all_projects' query.
ReportRow(tables, p) ==
    LET agg == PoAgg(tables, p)
    IN  [project_id |-> p.project_id,
         sap_project_definition |-> p.sap_project_definition,
         general_contractor |-> p.general_contractor,
         budget_total |->
             CoalesceAmt(agg.total_po, BudgetColumn(tables, p, "budget_total")),
         budget_actuals |->
             CoalesceAmt(agg.total_invoiced,
                         BudgetColumn(tables, p, "budget_actuals")),
         budget_committed |->
             CoalesceAmt(agg.total_po,
                         BudgetColumn(tables, p, "budget_committed")),
         budget_open |->
             CoalesceAmt(SqlMinus(agg.total_po, agg.total_invoiced),
                         BudgetColumn(tables, p, "budget_open"))]

\* get_all_projects() without filters: one row per projects row.  The rows
\* are given by project id rather than in the ORDER BY's order.
GetAllProjects(tables) ==
    [id \in {tables.projects[i].project_id : i \in 1..Len(tables.projects)} |->
        ReportRow(tables,
                  tables.projects[CHOOSE i \in 1..Len(tables.projects) :
                                      tables.projects[i].project_id = id])]

\* A page that lists the projects is served.
ReportProjects ==
    /\ report' = <<GetAllProjects(db)>>
    /\ UNCHANGED <<upstream, db, etl_lock, request, response, run, loaded_from,
                   refresh_metadata, now,
                   loaded_at, lucernex, lucernex_documents, sync>>

\* The upstream views change between runs.
UpstreamChanges ==
    /\ \A r \in Runners : run[r].pc = "idle"
    /\ upstream' \in ServerUpstreams \ {upstream}
    /\ UNCHANGED <<db, etl_lock, request, response, run, loaded_from,
                   refresh_metadata, now, report,
                   loaded_at, lucernex, lucernex_documents, sync>>

Init ==
    /\ upstream \in ServerUpstreams
    /\ InitIdle

Next ==
    \/ UpstreamChanges
    \/ \E c \in Requests :
         \/ SendRefresh(c)
         \/ AnswerBusy(c)
         \/ StartRefresh(c)
         \/ RefreshOk(c)
         \/ RefreshError(c)
         \/ RunEtlStep(c)

Spec == Init /\ [][Next]_vars

(***************************************************************************)
(* pull_projects and _build_store_to_sap_map over the projects of a store  *)
(***************************************************************************)
\* Rows of pull_projects' join for store 1.  A row without a cost-center key
\* joins no row of the document system, and a row that joins none has neither
\* an entity id nor a scope text.
StoreProjectPool ==
    {src \in [lx_project_entity_id : {NoAmt, Amt(101)},
              record_id_nbr : {Amt(7), Amt(8), Amt(9)},
              store : {<<"1">>},
              project_status : {"Active", "Complete"},
              sap_project_definition : {"USFC-A", "USFC-B", NULL},
              brief_scope_of_work : {<< >>, <<"Cancelled">>, <<"DUPLICATE">>},
              contractor : {NULL},
              pmo_sr_pm_comments : {<< >>},
              cec_comments : {<< >>},
              sap_actuals : {NoAmt},
              sap_open_commitments : {NoAmt},
              total_contract_amount : {NoAmt},
              contractor_po_amount : {NoAmt}] :
        /\ src.sap_project_definition = NULL => src.lx_project_entity_id = NoAmt
        /\ src.lx_project_entity_id = NoAmt => src.brief_scope_of_work = << >>}

\* The tracking warehouse's record id is the key of its projects.
StoreProjectLists ==
    {q \in ListsOf(StoreProjectPool, MaxProjects) :
        \A i, j \in 1..Len(q) : i # j => q[i].record_id_nbr # q[j].record_id_nbr}

InitProjects ==
    /\ upstream \in [projects : StoreProjectLists,
                      direct : {<< >>},
                      umbrella : {q \in ListsOf(UmbrellaPool, MaxUmbrella) :
                                      UmbrellaOrdered(q)},
                      po_view : {<< >>},
                      freshness : {FreshnessAllKnown}]
    /\ InitIdle

NextProjects ==
    \/ CliStart
    \/ PullProjects(CLI)
    \/ PullPurchaseOrders(CLI)
    \/ PullSamsUmbrella(CLI)

SpecProjects == InitProjects /\ [][NextProjects]_vars

(***************************************************************************)
(* Runs of the pipeline while time passes and the sources change           *)
(***************************************************************************)
NextClock == NextEtl \/ Tick \/ UpstreamChanges

SpecClock == Init /\ [][NextClock]_vars

(***************************************************************************)
(* Runs of the pipeline and the pages that list the projects               *)
(***************************************************************************)
\* Upstream states without umbrella rows and without rows to fetch by number.
ReportUpstreams ==
    [projects : ListsOf(ProjectPool, MaxProjects),
     direct : ListsOf(DirectPool, MaxDirect),
     umbrella : {<< >>},
     po_view : {<< >>},
     freshness : {FreshnessAllKnown}]

InitReports ==
    /\ upstream \in ReportUpstreams
    /\ InitIdle

NextReports == NextEtl \/ ReportProjects

SpecReports == InitReports /\ [][NextReports]_vars

(***************************************************************************)
(* Runs over projects whose canonical identifiers may coincide             *)
(***************************************************************************)
\* Rows of pull_projects' join.  The document system's entity ids and the
\* tracking warehouse's record ids are numbers of two unrelated systems, so
\* an entity id can equal a record id.  A row without a cost-center key joins
\* no row of the document system.
SharedIdPool ==
    {src \in [lx_project_entity_id : {NoAmt, Amt(7)},
              record_id_nbr : {Amt(7), Amt(8), Amt(9)},
              store : {<<"1">>},
              project_status : {"Active"},
              sap_project_definition : {"USFC-A", "USFC-B", NULL},
              brief_scope_of_work : {<< >>},
              contractor : {NULL},
              pmo_sr_pm_comments : {<< >>},
              cec_comments : {<< >>},
              sap_actuals : {Amt(1)},
              sap_open_commitments : {NoAmt},
              total_contract_amount : {NoAmt},
              contractor_po_amount : {NoAmt}] :
        src.sap_project_definition = NULL => src.lx_project_entity_id = NoAmt}

\* The record id is the key of the tracking warehouse's projects; the join is
\* on the cost-center key and the document system has one project per key
\* and per entity id, so rows with the same key join the same project or
\* none, and rows with the same entity id have the same key.
SharedIdLists ==
    {q \in ListsOf(SharedIdPool, MaxProjects) :
        \A i, j \in 1..Len(q) :
            i # j => /\ q[i].record_id_nbr # q[j].record_id_nbr
                     /\ (q[i].sap_project_definition = q[j].sap_project_definition
                           => q[i].lx_project_entity_id = q[j].lx_project_entity_id)
                     /\ (/\ q[i].lx_project_entity_id # NoAmt
                          /\ q[i].lx_project_entity_id = q[j].lx_project_entity_id)
                           => q[i].sap_project_definition
                                = q[j].sap_project_definition}

InitSharedIds ==
    /\ upstream \in [projects : SharedIdLists,
                      direct : {<< >>},
                      umbrella : {<< >>},
                      po_view : {<< >>},
                      freshness : {FreshnessAllKnown}]
    /\ InitIdle

SpecSharedIds == InitSharedIds /\ [][NextEtl]_vars

(***************************************************************************)
(* Runs over projects whose commentary names merged and unmerged POs       *)
(***************************************************************************)
\* A project whose commentary names a PO the direct pull returns.
ProjNamesDirect ==
    [ProjCancelled EXCEPT
        !.pmo_sr_pm_comments = <<"APTIM", " ", "PO">> \o PO1]

\* A project whose commentary names two POs, one of which the direct pull
\* returns.
ProjNamesTwo ==
    [ProjClean EXCEPT
        !.pmo_sr_pm_comments =
            <<"APTIM", " ", "PO", "#">> \o PO1
              \o <<" ", "INSTALLER", " ", "PO", "#", " ">> \o PO5]

ViewV5 == ViewRow(PO5, "V2", Amt(2), Amt(1))

InitRecovery ==
    /\ upstream \in [projects : ListsOf({ProjClean, ProjNamesDirect,
                                         ProjNamesTwo}, MaxProjects),
                      direct : ListsOf(DirectPool, MaxDirect),
                      umbrella : {<< >>, <<UmbrellaPlain>>},
                      po_view : ListsOf({ViewV2, ViewV5}, MaxFetched),
                      freshness : {FreshnessAllKnown}]
    /\ InitIdle

SpecRecovery == InitRecovery /\ [][NextEtl]_vars

(***************************************************************************)
(* The document sync against a database a run of the pipeline has loaded   *)
(***************************************************************************)
\* Source rows whose canonical ids are "101", "9" and "10".
DocProjectPool ==
    {ProjClean,
     [ProjClean EXCEPT !.lx_project_entity_id = NoAmt,
                       !.record_id_nbr = Amt(9),
                       !.sap_project_definition = "USFC-B"],
     [ProjClean EXCEPT !.lx_project_entity_id = NoAmt,
                       !.record_id_nbr = Amt(10),
                       !.sap_project_definition = NULL]}

\* init_db() over a database run_etl has loaded; no document stored yet.
InitDocuments ==
    /\ upstream \in [projects : ListsOf(DocProjectPool, MaxProjects),
                      direct : {<< >>}, umbrella : {<< >>}, po_view : {<< >>},
                      freshness : {FreshnessAllKnown}]
    /\ db = LoadToSqlite(EmptyDb, PullProjectsRows(upstream.projects), << >>)
    /\ loaded_from = <<upstream>>
    /\ etl_lock = [running |-> FALSE, message |-> ""]
    /\ request = [c \in Requests |-> "none"]
    /\ response = [c \in Requests |-> "none"]
    /\ run = [r \in Runners |-> IdleRun]
    /\ refresh_metadata = << >>
    /\ now = 0
    /\ report = << >>
    /\ loaded_at = 0
    /\ lucernex = LucernexFirst
    /\ lucernex_documents = EmptyDict
    /\ sync = IdleSync

NextDocuments ==
    \/ SyncSingle
    \/ SyncAllStart
    \/ SyncAllStep
    \/ SyncAllEnd
    \/ SyncExit
    \/ LucernexChanges

SpecDocuments == InitDocuments /\ [][NextDocuments]_vars

\* The loop of sync_all_projects is a for statement over a fetched list: the
\* interpreter always takes its next step.
SpecDocumentsFair ==
    SpecDocuments /\ WF_vars(SyncAllStep) /\ WF_vars(SyncAllEnd)

(***************************************************************************)
(* Properties                                                              *)
(***************************************************************************)
Range(q) == {q[i] : i \in 1..Len(q)}

\* run_etl of runner r is past `stage` and still holds its locals.
Past(r, stage) ==
    /\ run[r].pc \in Range(RunEtlStages)
    /\ StageIndex(run[r].pc) > StageIndex(stage)

\* The records of the three paths in the order the merge visits them.
Discovered(r) == upstream.direct \o run[r].sams_pos \o run[r].comment_pos

\* The first record with PO number n in a non-empty list that holds n.
FirstWith(q, n) == q[CHOOSE i \in 1..Len(q) :
                        /\ q[i].po_number = n
                        /\ \A j \in 1..(i - 1) : q[j].po_number # n]

\* C1: once the three lists are merged, the merged list holds no PO number
\* twice, and every merged record is the first one found for its number in
\* the order direct, umbrella, comment-recovered.
C1_MergedListHasNoDuplicate ==
    \A r \in Runners : Past(r, "merge_comment") =>
        LET pos == run[r].pos
        IN  /\ \A i, j \in 1..Len(pos) :
                 pos[i].po_number = pos[j].po_number => i = j
            /\ \A i \in 1..Len(pos) :
                 pos[i] = FirstWith(Discovered(r), pos[i].po_number)

\* C2: at most one run started by POST /api/refresh is in progress, and a
\* request handled while the flag is set is answered busy, starts no run and
\* leaves nothing behind that would start one later.
C2_OneRefreshOthersBusy ==
    /\ [](Cardinality({c \in Requests : run[c].pc # "idle"}) <= 1)
    /\ [][\A c \in Requests :
            (request[c] = "sent" /\ etl_lock.running /\ request'[c] # "sent")
                => /\ response'[c] = "busy"
                   /\ request'[c] = "none"
                   /\ run[c].pc = "idle"
                   /\ run' = run
                   /\ etl_lock' = etl_lock]_vars

\* One client's run is in progress and another client has been answered busy.
C2_Witness ==
    \E c, d \in Requests :
        /\ c # d
        /\ request[c] = "awaiting" /\ Past(c, "pull_projects")
        /\ response[d] = "busy" /\ request[d] = "none" /\ run[d].pc = "idle"

Keys(table, column) == {table[i][column] : i \in 1..Len(table)}

\* C4: once a load has completed, every sap_po row is the row of a merged PO
\* record of this run, every projects row is the row of an input project
\* (its contractor possibly replaced by a vendor of the merged POs), every
\* sap_budget row is the row of an input project with a cost center, and no
\* key that was in a table before the run and is not in the input remains.
C4_TablesHoldOnlyThisLoad ==
    \A c \in Runners : Past(c, "load_to_sqlite") =>
        LET projects == run[c].projects
            pos == run[c].pos
            before == run[c].db_at_start
        IN  /\ \A i \in 1..Len(db.sap_po) :
                 \E k \in 1..Len(pos) : db.sap_po[i] = PoRow(pos[k])
            /\ \A i \in 1..Len(db.projects) :
                 \E k \in 1..Len(projects) :
                     /\ [db.projects[i] EXCEPT !.general_contractor =
                            projects[k].general_contractor]
                          = ProjectRow(projects[k])
                     /\ \/ db.projects[i].general_contractor
                             = projects[k].general_contractor
                        \/ db.projects[i].general_contractor
                             \in Keys(pos, "vendor")
            /\ \A i \in 1..Len(db.sap_budget) :
                 \E k \in 1..Len(projects) :
                     /\ ~Falsy(projects[k].sap_project_definition)
                     /\ db.sap_budget[i] = BudgetRow(projects[k])
            /\ Keys(before.sap_po, "po_number") \cap Keys(db.sap_po, "po_number")
                 \subseteq Keys(pos, "po_number")
            /\ Keys(before.projects, "project_id")
                 \cap Keys(db.projects, "project_id")
                 \subseteq Keys(projects, "project_id")
            /\ Keys(before.sap_budget, "sap_project_definition")
                 \cap Keys(db.sap_budget, "sap_project_definition")
                 \subseteq Keys(projects, "sap_project_definition")

\* A load has completed over tables that held a PO number, a project and a
\* cost center that are not in this load's input.
C4_Witness ==
    \E c \in Runners :
        /\ Past(c, "load_to_sqlite")
        /\ Keys(run[c].db_at_start.sap_po, "po_number")
             \ Keys(run[c].pos, "po_number") # {}
        /\ Keys(run[c].db_at_start.projects, "project_id")
             \ Keys(run[c].projects, "project_id") # {}
        /\ Keys(run[c].db_at_start.sap_budget, "sap_project_definition")
             \ Keys(run[c].projects, "sap_project_definition") # {}
        /\ db.sap_po # << >>

\* C5: every persisted PO row has a total, an invoiced amount and a remaining
\* amount that are not null, and its remaining amount is its total minus its
\* invoiced amount.
C5_AmountsSetAndRemainingExact ==
    \A r \in Runners : Past(r, "load_to_sqlite") =>
        \A i \in 1..Len(db.sap_po) :
            LET row == db.sap_po[i]
            IN  /\ row.po_total # NoAmt
                /\ row.invoiced_to_date # NoAmt
                /\ row.remaining_to_invoice # NoAmt
                /\ Num(row.remaining_to_invoice)
                     = Num(row.po_total) - Num(row.invoiced_to_date)

\* The projects of a list that are candidates for store s: that store, and a
\* cost-center key.
Candidates(projects, s) ==
    {i \in 1..Len(projects) :
        projects[i].store = s /\ ~Falsy(projects[i].sap_project_definition)}

ScopeHas(p, marker) == Contains(Lower(p.brief_scope_of_work), marker)

\* C6: when a store has exactly two candidate projects, one with status
\* 'active' and neither 'duplicate' nor 'cancelled' in its scope, the other
\* with 'cancelled' in its scope, the map gives the store the first one's
\* cost-center key, whichever of the two comes first in the list.
C6_CleanProjectWinsTheStore ==
    \A r \in Runners : Past(r, "pull_sams_umbrella_pos") =>
        LET projects == run[r].projects
            store_map == run[r].store_to_sap
        IN  \A i, j \in 1..Len(projects) :
                ( /\ projects[i].store # << >>
                  /\ Candidates(projects, projects[i].store) = {i, j}
                  /\ i # j
                  /\ LowerAtom(projects[i].project_status) = "active"
                  /\ ~ScopeHas(projects[i], "duplicate")
                  /\ ~ScopeHas(projects[i], "cancelled")
                  /\ ScopeHas(projects[j], "cancelled") )
                => /\ projects[i].store \in DOMAIN store_map
                   /\ store_map[projects[i].store]
                        = projects[i].sap_project_definition

\* The map was built from a list in which the cancelled project of a store
\* comes before the clean one, and the two have different cost centers.
C6_Witness ==
    \E r \in Runners :
        /\ Past(r, "pull_sams_umbrella_pos")
        /\ \E i, j \in 1..Len(run[r].projects) :
             LET clean == run[r].projects[i]
                 other == run[r].projects[j]
             IN  /\ j < i
                 /\ Candidates(run[r].projects, clean.store) = {i, j}
                 /\ LowerAtom(clean.project_status) = "active"
                 /\ ~ScopeHas(clean, "duplicate") /\ ~ScopeHas(clean, "cancelled")
                 /\ ScopeHas(other, "cancelled")
                 /\ clean.sap_project_definition # other.sap_project_definition

\* The PO records the umbrella pull emitted for one row of the feed.
EmittedFor(r, row) ==
    SelectSeq(run[r].sams_pos, LAMBDA po :
        po.po_number = row.po_number /\ po.vendor = row.vendor)

\* C7: for a row whose item text starts with digits followed by the marker
\* and whose raw store field is another number, the emitted PO carries the
\* cost center the map gives the embedded store (and none is emitted when the
\* map has no such store); for a row whose item text does not match, the raw
\* store field decides in the same way.
C7_EmbeddedStoreDecides ==
    \A r \in Runners : Past(r, "pull_sams_umbrella_pos") =>
        \A k \in 1..Len(upstream.umbrella) :
            LET row == upstream.umbrella[k]
                store_map == run[r].store_to_sap
                store == IF ItemTextMatches(row.item_text)
                         THEN SubSeq(row.item_text, 1,
                                     DigitRun(row.item_text, 1))
                         ELSE row.store_nbr
                emitted == EmittedFor(r, row)
            IN  IF store \in DOMAIN store_map
                THEN /\ Len(emitted) = 1
                     /\ emitted[1].sap_project_definition = store_map[store]
                ELSE emitted = << >>

\* A row was attributed by the store in its item text, the raw store field
\* holds another store, and the map gives the two stores different keys.
C7_Witness ==
    \E r \in Runners :
        /\ Past(r, "pull_sams_umbrella_pos")
        /\ \E k \in 1..Len(upstream.umbrella) :
             LET row == upstream.umbrella[k]
                 embedded == SubSeq(row.item_text, 1, DigitRun(row.item_text, 1))
                 store_map == run[r].store_to_sap
             IN  /\ ItemTextMatches(row.item_text)
                 /\ embedded # row.store_nbr
                 /\ {embedded, row.store_nbr} \subseteq DOMAIN store_map
                 /\ store_map[embedded] # store_map[row.store_nbr]
                 /\ EmittedFor(r, row) # << >>

\* The PO numbers a text names after one of the labels.
Named(text) == Range(FindAllCommentPos(text))

\* The fetch by PO number returns a record for n when asked for it.
Fetchable(n) == FetchByPoNumber(upstream.po_view, {n}) # << >>

\* The merged list holds PO number n under cost center sap.
MergedUnder(r, n, sap) ==
    \E i \in 1..Len(run[r].pos) :
        /\ run[r].pos[i].po_number = n
        /\ run[r].pos[i].sap_project_definition = sap

\* C8 as stated: for every project with a cost-center key and every PO
\* number its commentary (either commentary field) names after a label, if
\* the number is in neither the direct nor the umbrella list and the fetch
\* returns a record for it, the merged list holds it under that project's key.
C8_CommentedPoUnderCommentingProject ==
    \A r \in Runners : Past(r, "merge_comment") =>
        \A k \in 1..Len(run[r].projects) :
            LET p == run[r].projects[k]
            IN  \A n \in Named(p.pmo_sr_pm_comments) \cup Named(p.cec_comments) :
                    ( /\ ~Falsy(p.sap_project_definition)
                      /\ n \notin PoNumbers(upstream.direct)
                      /\ n \notin PoNumbers(run[r].sams_pos)
                      /\ Fetchable(n) )
                    => MergedUnder(r, n, p.sap_project_definition)

\* C8 as amended: the commentary is the PMO Sr PM comments field only, and
\* the merged list holds the PO number under the key of the last project of
\* the list that has a cost-center key and names it there.
C8_CommentedPoUnderLastPmoMention ==
    \A r \in Runners : Past(r, "merge_comment") =>
        \A k \in 1..Len(run[r].projects) :
            LET p == run[r].projects[k]
                Mentions(q, n) == /\ ~Falsy(q.sap_project_definition)
                                  /\ n \in Named(q.pmo_sr_pm_comments)
            IN  \A n \in Named(p.pmo_sr_pm_comments) :
                    ( /\ Mentions(p, n)
                      /\ \A l \in (k + 1)..Len(run[r].projects) :
                             ~Mentions(run[r].projects[l], n)
                      /\ n \notin PoNumbers(upstream.direct)
                      /\ n \notin PoNumbers(run[r].sams_pos)
                      /\ Fetchable(n) )
                    => /\ MergedUnder(r, n, p.sap_project_definition)
                       /\ \A i \in 1..Len(run[r].pos) :
                              run[r].pos[i].po_number = n =>
                                  run[r].pos[i].sap_project_definition
                                      = p.sap_project_definition

\* Two projects with different cost centers name the same PO number in their
\* PMO comments, and the number was fetched and merged.
C8_Witness ==
    \E r \in Runners :
        /\ Past(r, "merge_comment")
        /\ \E k, l \in 1..Len(run[r].projects) :
             LET p == run[r].projects[k]
                 q == run[r].projects[l]
             IN  /\ k < l
                 /\ ~Falsy(p.sap_project_definition)
                 /\ ~Falsy(q.sap_project_definition)
                 /\ p.sap_project_definition # q.sap_project_definition
                 /\ \E n \in Named(p.pmo_sr_pm_comments)
                               \cap Named(q.pmo_sr_pm_comments) :
                        /\ n \in PoNumbers(run[r].comment_pos)
                        /\ MergedUnder(r, n, q.sap_project_definition)

\* The sum of po_total over a list of PO rows.
RECURSIVE SumOfTotals(_)
SumOfTotals(rows) ==
    IF rows = << >> THEN 0 ELSE Num(Head(rows).po_total) + SumOfTotals(Tail(rows))

\* The persisted POs of one cost center from one vendor.
PosOf(sap, vendor) ==
    SelectSeq(db.sap_po, LAMBDA row :
        row.sap_project_definition = sap /\ row.vendor = vendor)

\* C9: after the load, every project whose cost center has a persisted PO has
\* as contractor a vendor of that cost center whose persisted PO totals sum
\* to at least the sum of each other vendor of that cost center.
C9_ContractorHasLargestSum ==
    \A r \in Runners : Past(r, "load_to_sqlite") =>
        \A i \in 1..Len(db.projects) :
            LET sap == db.projects[i].sap_project_definition
                contractor == db.projects[i].general_contractor
            IN  (\E k \in 1..Len(db.sap_po) :
                     db.sap_po[k].sap_project_definition = sap)
                => /\ PosOf(sap, contractor) # << >>
                   /\ \A k \in 1..Len(db.sap_po) :
                        db.sap_po[k].sap_project_definition = sap =>
                            SumOfTotals(PosOf(sap, contractor))
                                >= SumOfTotals(PosOf(sap, db.sap_po[k].vendor))

\* A project's cost center has POs of two vendors; the vendor with the larger
\* sum has it from two POs, each smaller than a PO of the other vendor.
C9_Witness ==
    \E r \in Runners :
        /\ Past(r, "load_to_sqlite")
        /\ \E i \in 1..Len(db.projects), k, l \in 1..Len(db.sap_po) :
             LET sap == db.projects[i].sap_project_definition
                 contractor == db.projects[i].general_contractor
             IN  /\ db.sap_po[k].sap_project_definition = sap
                 /\ db.sap_po[l].sap_project_definition = sap
                 /\ db.sap_po[k].vendor = contractor
                 /\ db.sap_po[l].vendor # contractor
                 /\ Len(PosOf(sap, contractor)) = 2
                 /\ Num(db.sap_po[l].po_total) > Num(db.sap_po[k].po_total)

\* The pulls that come before the load in run_etl.
PullsBeforeLoad ==
    {"pull_projects", "pull_purchase_orders", "pull_sams_umbrella_pos",
     "pull_comment_referenced_pos"}

\* C10: when one of the pulls that come before the load has raised, the load
\* has not started and the tables are as they were when the run started; the
\* request that started the run is still awaiting its answer, and the answer
\* it gets is the error.
C10_FailedPullLeavesTables ==
    /\ [](\A r \in Runners :
            (run[r].pc = "raised" /\ run[r].failed_at \in PullsBeforeLoad)
              => /\ ~run[r].load_started
                 /\ db = run[r].db_at_start
                 /\ r \in Requests => request[r] = "awaiting")
    /\ [][\A c \in Requests :
            (run[c].pc = "raised" /\ run'[c].pc # "raised")
              => response'[c] = "error" /\ db' = db]_vars

\* The comment-referenced pull raised in a run that started on loaded tables.
C10_Witness ==
    \E c \in Requests :
        /\ run[c].pc = "raised"
        /\ run[c].failed_at = "pull_comment_referenced_pos"
        /\ run[c].db_at_start.sap_po # << >>
        /\ run[c].db_at_start.projects # << >>

(***************************************************************************)
(* Refresh metadata                                                        *)
(***************************************************************************)
\* The rows of the refresh_metadata table that belong to one tracked source.
MetadataRowsOf(table, key) ==
    {i \in 1..Len(table) : table[i].source_key = key}

\* C11: when _record_refresh_metadata has run, every tracked source has its
\* one row carrying the load time of this run, whether or not the freshness
\* query of that or of any other source raised: the row of a source whose
\* query raised reads 'Unknown', and the row of a source whose query answered
\* with a time reads that time.
C11_FailedSourceReadsUnknownOthersRecorded ==
    [][\A r \in Runners :
         (run[r].pc = "record_refresh_metadata" /\ run'[r].pc = "returned")
           => \A k \in Range(SourceKeys) :
                /\ Cardinality(MetadataRowsOf(refresh_metadata', k)) = 1
                /\ \A i \in MetadataRowsOf(refresh_metadata', k) :
                     LET row == refresh_metadata'[i]
                         answer == upstream.freshness[k]
                     IN  /\ row.dashboard_refreshed_at = FormatTime(now)
                         /\ answer.raises
                              => row.source_last_updated = <<"Unknown">>
                         /\ (~answer.raises /\ answer.value # NoAmt)
                              => row.source_last_updated
                                   = FormatTime(Num(answer.value))]_vars

\* A run at a later time has returned; the freshness query of the first
\* source raised and its row reads 'Unknown', and a source after it has its
\* time recorded.
C11_Witness ==
    /\ run[CLI].pc = "returned"
    /\ now > 0
    /\ \E i, j \in 1..Len(refresh_metadata) :
         /\ refresh_metadata[i].source_key = SourceKeys[1]
         /\ upstream.freshness[SourceKeys[1]].raises
         /\ refresh_metadata[i].source_last_updated = <<"Unknown">>
         /\ refresh_metadata[i].dashboard_refreshed_at = FormatTime(now)
         /\ refresh_metadata[j].source_key = SourceKeys[3]
         /\ refresh_metadata[j].source_last_updated # <<"Unknown">>
         /\ refresh_metadata[j].dashboard_refreshed_at = FormatTime(now)

(***************************************************************************)
(* Canonical identifier                                                    *)
(***************************************************************************)
\* C12: the project_id of every pulled project is the document system's
\* entity id, written as a string, when the project's row has one, and the
\* tracking warehouse's record id, written as a string, when it has none.
C12_EntityIdElseRecordId ==
    \A r \in Runners :
        Past(r, "pull_projects")
          => /\ Len(run[r].projects) = Len(upstream.projects)
             /\ \A i \in 1..Len(upstream.projects) :
                  LET src == upstream.projects[i]
                  IN  run[r].projects[i].project_id
                        = IF src.lx_project_entity_id # NoAmt
                          THEN ToString(Num(src.lx_project_entity_id))
                          ELSE ToString(Num(src.record_id_nbr))

\* A pull returned one project that has an entity id and one that has none.
C12_Witness ==
    /\ Past(CLI, "pull_projects")
    /\ \E i, j \in 1..Len(upstream.projects) :
         /\ upstream.projects[i].lx_project_entity_id # NoAmt
         /\ upstream.projects[j].lx_project_entity_id = NoAmt
         /\ run[CLI].projects[i].project_id # run[CLI].projects[j].project_id

(***************************************************************************)
(* Budget total at report time                                             *)
(***************************************************************************)
\* The rows of a table that carry the cost-center key of project row p.
RowsOfCostCenter(table, p) ==
    SelectSeq(table, LAMBDA row :
        /\ p.sap_project_definition # NULL
        /\ row.sap_project_definition = p.sap_project_definition)

\* C13: in the rows get_all_projects returns, the budget total of a project
\* whose cost center has at least one persisted PO is the sum of the totals
\* of those POs; the budget total of a project whose cost center has none is
\* the total of the persisted budget summary of the cost center, and 0 when
\* there is no such summary either.
C13_ReportTotalPrefersPoSum ==
    [][report' # report
         => \A i \in 1..Len(db.projects) :
              LET p == db.projects[i]
                  pos == RowsOfCostCenter(db.sap_po, p)
                  summaries == RowsOfCostCenter(db.sap_budget, p)
                  shown == report'[1][p.project_id].budget_total
              IN  /\ pos # << >> => shown = Amt(SumOfTotals(pos))
                  /\ (pos = << >> /\ summaries # << >>)
                       => shown = summaries[1].budget_total
                  /\ (pos = << >> /\ summaries = << >>) => shown = Amt(0)]_vars

\* A report shows one project whose cost center has two POs, whose sum is
\* not the summary's total, and one project whose cost center has a summary
\* with a positive total and no PO.
C13_Witness ==
    /\ report # << >>
    /\ report[1] = GetAllProjects(db)
    /\ \E i, j \in 1..Len(db.projects) :
         LET p == db.projects[i]
             q == db.projects[j]
         IN  /\ Len(RowsOfCostCenter(db.sap_po, p)) = 2
             /\ RowsOfCostCenter(db.sap_budget, p) # << >>
             /\ report[1][p.project_id].budget_total
                  # RowsOfCostCenter(db.sap_budget, p)[1].budget_total
             /\ RowsOfCostCenter(db.sap_po, q) = << >>
             /\ RowsOfCostCenter(db.sap_budget, q) # << >>
             /\ Num(report[1][q.project_id].budget_total) > 0

(***************************************************************************)
(* Persisted budget summary                                                *)
(***************************************************************************)
\* actuals plus open commitments of a pulled project, each null counted as 0
ComputedTotal(p) ==
    (IF p.sap_actuals = NoAmt THEN 0 ELSE Num(p.sap_actuals))
      + (IF p.sap_open_commitments = NoAmt THEN 0
         ELSE Num(p.sap_open_commitments))

\* The budget total the rule gives for a pulled project.
RuledTotal(p) ==
    IF ComputedTotal(p) > 0 THEN Amt(ComputedTotal(p))
    ELSE IF p.total_contract_amount = NoAmt THEN Amt(0)
    ELSE p.total_contract_amount

\* The sap_budget table has exactly one row for the cost center of pulled
\* project p, and its total is the one the rule gives for p.
PersistedTotalIsRuled(p) ==
    LET rows == RowsOfCostCenter(db.sap_budget, p)
    IN  Len(rows) = 1 /\ rows[1].budget_total = RuledTotal(p)

\* C14 as stated: after the load, for every pulled project with a cost-center
\* key, the persisted budget total of its cost center is the project's
\* actuals plus open commitments when that sum is positive, and its contract
\* amount when the sum is zero or negative.
C14_EveryProjectsTotalIsRuled ==
    \A r \in Runners :
        Past(r, "load_to_sqlite")
          => \A i \in 1..Len(run[r].projects) :
               ~Falsy(run[r].projects[i].sap_project_definition)
                 => PersistedTotalIsRuled(run[r].projects[i])

\* C14 as amended: after the load, for every cost-center key of a pulled
\* project, the persisted budget total is the one the rule gives for the last
\* pulled project with that key.
C14_LastProjectsTotalIsRuled ==
    \A r \in Runners :
        Past(r, "load_to_sqlite")
          => \A i \in 1..Len(run[r].projects) :
               LET p == run[r].projects[i]
               IN  (/\ ~Falsy(p.sap_project_definition)
                    /\ \A j \in (i + 1)..Len(run[r].projects) :
                         run[r].projects[j].sap_project_definition
                           # p.sap_project_definition)
                     => PersistedTotalIsRuled(p)

\* A load has persisted the summary of a cost center shared by two pulled
\* projects, the first with a positive sum and the last with a negative one.
C14_Witness ==
    /\ Past(CLI, "load_to_sqlite")
    /\ \E i, j \in 1..Len(run[CLI].projects) :
         LET p == run[CLI].projects[i]
             q == run[CLI].projects[j]
         IN  /\ i < j
             /\ ~Falsy(p.sap_project_definition)
             /\ p.sap_project_definition = q.sap_project_definition
             /\ ComputedTotal(p) > 0
             /\ ComputedTotal(q) < 0
             /\ PersistedTotalIsRuled(q)

(***************************************************************************)
(* Contractor backfill                                                     *)
(***************************************************************************)
\* The contractor the projects row of pulled list q with this id was inserted
\* with: the one of the first pulled project with the id.
InsertedContractor(q, id) ==
    q[CHOOSE i \in 1..Len(q) :
          /\ q[i].project_id = id
          /\ \A j \in 1..(i - 1) : q[j].project_id # id].general_contractor

MappedRows(rows, store_map) ==
    SelectSeq(rows, LAMBDA row : RealStore(row) \in DOMAIN store_map)

\* C16: the umbrella pull returns, without raising, one PO for each row of
\* the feed whose resolved store is in the store map, in the feed's order and
\* under the cost center the map gives that store; the rows whose resolved
\* store is not in the map have no PO, wherever in the feed they stand.
C16_UnmappedRowsDroppedOthersEmitted ==
    \A r \in Runners :
        Past(r, "pull_sams_umbrella_pos")
          => LET store_map == run[r].store_to_sap
                 kept == MappedRows(upstream.umbrella, store_map)
             IN  /\ Len(run[r].sams_pos) = Len(kept)
                 /\ \A k \in 1..Len(kept) :
                      /\ run[r].sams_pos[k].po_number = kept[k].po_number
                      /\ run[r].sams_pos[k].sap_project_definition
                           = store_map[RealStore(kept[k])]

\* The feed's first row names a store without a cost center, a later row
\* names a store with one, and the pull has returned a PO for the later row.
C16_Witness ==
    /\ Past(CLI, "pull_sams_umbrella_pos")
    /\ \E i, j \in 1..Len(upstream.umbrella) :
         /\ i = 1 /\ i < j
         /\ RealStore(upstream.umbrella[i]) \notin DOMAIN run[CLI].store_to_sap
         /\ RealStore(upstream.umbrella[j]) \in DOMAIN run[CLI].store_to_sap
         /\ Len(run[CLI].sams_pos) = 1
         /\ run[CLI].sams_pos[1].po_number = upstream.umbrella[j].po_number

(***************************************************************************)
(* Collisions in the store map                                             *)
(***************************************************************************)
\* An active project whose scope names neither marker.
ActiveAndClean(p) ==
    /\ LowerAtom(p.project_status) = "active"
    /\ ~ScopeHas(p, "duplicate")
    /\ ~ScopeHas(p, "cancelled")

\* The least of a non-empty set of positions.
First(positions) == CHOOSE i \in positions : \A j \in positions : i <= j

\* The candidate whose key a store keeps when the first candidate sets the
\* mapping and only a strictly better candidate replaces the mapped one: the
\* first active and clean candidate if there is one (none is better than it),
\* and the first candidate otherwise.
KeptCandidate(projects, s) ==
    LET all == Candidates(projects, s)
        clean == {i \in all : ActiveAndClean(projects[i])}
    IN  IF clean # {} THEN First(clean) ELSE First(all)

\* C17: the map gives every store that has candidate projects the key of the
\* candidate that is kept when the first one seen sets the mapping and a
\* later one replaces the mapped one only if it is active and clean and the
\* mapped one is not.
C17_ReplacedOnlyByStrictlyBetter ==
    \A r \in Runners :
        Past(r, "pull_sams_umbrella_pos")
          => LET projects == run[r].projects
                 store_map == run[r].store_to_sap
             IN  \A i \in 1..Len(projects) :
                     Candidates(projects, projects[i].store) # {}
                       => /\ projects[i].store \in DOMAIN store_map
                          /\ store_map[projects[i].store]
                               = projects[KeptCandidate(projects,
                                     projects[i].store)].sap_project_definition

\* C18: the map gives a store all of whose candidate projects have
\* 'duplicate' or 'cancelled' in their scope the key of the first of them,
\* however many follow it and whatever their statuses.
C18_OnlyMarkedCandidatesFirstKept ==
    \A r \in Runners :
        Past(r, "pull_sams_umbrella_pos")
          => LET projects == run[r].projects
                 store_map == run[r].store_to_sap
             IN  \A i \in 1..Len(projects) :
                     LET all == Candidates(projects, projects[i].store)
                     IN  (/\ all # {}
                          /\ \A j \in all : \/ ScopeHas(projects[j], "duplicate")
                                            \/ ScopeHas(projects[j], "cancelled"))
                           => /\ projects[i].store \in DOMAIN store_map
                              /\ store_map[projects[i].store]
                                   = projects[First(all)].sap_project_definition

\* The map was built for a store with two candidates, both marked, the later
\* one active and under another key than the first.
C18_Witness ==
    /\ Past(CLI, "pull_sams_umbrella_pos")
    /\ \E i, j \in 1..Len(run[CLI].projects) :
         LET p == run[CLI].projects[i]
             q == run[CLI].projects[j]
         IN  /\ i < j
             /\ Candidates(run[CLI].projects, p.store) = {i, j}
             /\ ScopeHas(p, "cancelled")
             /\ ScopeHas(q, "duplicate")
             /\ LowerAtom(p.project_status) # "active"
             /\ LowerAtom(q.project_status) = "active"
             /\ p.sap_project_definition # q.sap_project_definition
             /\ run[CLI].store_to_sap[p.store] = p.sap_project_definition

(***************************************************************************)
(* The map mined from the commentary                                       *)
(***************************************************************************)
\* The projects of list q that have a cost-center key and name PO number n
\* in their PMO Sr PM comments.
PmoNamers(q, n) ==
    {i \in 1..Len(q) : /\ ~Falsy(q[i].sap_project_definition)
                       /\ n \in Named(q[i].pmo_sr_pm_comments)}

\* C19 as stated: once the commentary is mined, every PO number that a
\* project with a cost-center key names after a label in either of its two
\* commentary fields has an entry in the mined map.
C19_EitherFieldMined ==
    \A r \in Runners :
        Past(r, "pull_comment_referenced_pos")
          => \A i \in 1..Len(run[r].projects) :
               LET p == run[r].projects[i]
               IN  ~Falsy(p.sap_project_definition)
                     => \A n \in Named(p.pmo_sr_pm_comments)
                                   \cup Named(p.cec_comments) :
                            n \in DOMAIN run[r].comment_po_map

\* C19 as amended: once the commentary is mined, every PO number that a
\* project with a cost-center key names in its PMO Sr PM comments has an
\* entry in the mined map, and a PO number that such a project names in its
\* CEC comments has no entry unless the PMO Sr PM comments of a project with
\* a cost-center key name it too.
C19_PmoFieldMinedCecFieldNot ==
    \A r \in Runners :
        Past(r, "pull_comment_referenced_pos")
          => \A i \in 1..Len(run[r].projects) :
               LET p == run[r].projects[i]
               IN  ~Falsy(p.sap_project_definition)
                     => /\ \A n \in Named(p.pmo_sr_pm_comments) :
                             n \in DOMAIN run[r].comment_po_map
                        /\ \A n \in Named(p.cec_comments) :
                             PmoNamers(run[r].projects, n) = {}
                               => n \notin DOMAIN run[r].comment_po_map

\* The commentary was mined of one project that names a PO in its PMO Sr PM
\* comments, now in the map, and of one that names another PO in its CEC
\* comments only, not in the map.
C19_Witness ==
    /\ Past(CLI, "pull_comment_referenced_pos")
    /\ \E i, j \in 1..Len(run[CLI].projects) :
         LET p == run[CLI].projects[i]
             q == run[CLI].projects[j]
         IN  /\ ~Falsy(p.sap_project_definition)
             /\ ~Falsy(q.sap_project_definition)
             /\ \E n \in Named(p.pmo_sr_pm_comments) :
                  n \in DOMAIN run[CLI].comment_po_map
             /\ \E n \in Named(q.cec_comments) :
                  /\ n \notin Named(q.pmo_sr_pm_comments)
                  /\ n \notin DOMAIN run[CLI].comment_po_map

EmbeddedStoreUnmapped(row, store_map) ==
    /\ ItemTextMatches(row.item_text)
    /\ SubSeq(row.item_text, 1, DigitRun(row.item_text, 1))
         \notin DOMAIN store_map

\* C30: the umbrella pull returns no PO for a row whose item text matches the
\* store pattern and names a store that is not in the store map, even when
\* the row's raw store field is in the map.
C30_UnmappedEmbeddedStoreNeverFallsBack ==
    \A r \in Runners :
        Past(r, "pull_sams_umbrella_pos")
          => \A k \in 1..Len(upstream.umbrella) :
               EmbeddedStoreUnmapped(upstream.umbrella[k], run[r].store_to_sap)
                 => \A i \in 1..Len(run[r].sams_pos) :
                      run[r].sams_pos[i].po_number
                        # upstream.umbrella[k].po_number

\* The pull has returned; one row's item text names a store the map does not
\* know while the map knows the row's raw store.
C30_Witness ==
    /\ Past(CLI, "pull_sams_umbrella_pos")
    /\ \E k \in 1..Len(upstream.umbrella) :
         /\ EmbeddedStoreUnmapped(upstream.umbrella[k], run[CLI].store_to_sap)
         /\ upstream.umbrella[k].store_nbr \in DOMAIN run[CLI].store_to_sap

(***************************************************************************)
(* Budget summaries and the projects they belong to                        *)
(***************************************************************************)
\* C26: after the load, every row of sap_budget has the cost-center key of
\* some row of projects, also when two pulled projects have the same
\* project_id.
C26_BudgetKeysAreProjectKeys ==
    \A r \in Runners :
        Past(r, "load_to_sqlite")
          => \A b \in 1..Len(db.sap_budget) :
               \E i \in 1..Len(db.projects) :
                   db.projects[i].sap_project_definition
                     = db.sap_budget[b].sap_project_definition

(***************************************************************************)
(* The fetch of comment-referenced POs                                     *)
(***************************************************************************)
\* C21: when pull_comment_referenced_pos has returned, the run has issued no
\* fetch by PO number if every mined PO number was in the merged set already,
\* and otherwise one fetch, for exactly the mined numbers that were not; the
\* run issues no further fetch afterwards, however few records came back.
C21_OneFetchForTheMissingNumbers ==
    \A r \in Runners :
        Past(r, "pull_comment_referenced_pos")
          => /\ Len(run[r].fetched) <= 1
             /\ run[r].pc = "merge_comment"
                  => LET mined == DOMAIN run[r].comment_po_map
                         missing == mined \ run[r].existing_po_numbers
                     IN  /\ missing = {} => run[r].fetched = << >>
                         /\ missing # {} => run[r].fetched = <<missing>>

\* A run is about to load: it mined three PO numbers, one of them already
\* merged, fetched the other two at once and got one record back.
C21_Witness ==
    /\ run[CLI].pc = "load_to_sqlite"
    /\ Cardinality(DOMAIN run[CLI].comment_po_map) = 3
    /\ Len(run[CLI].fetched) = 1
    /\ Cardinality(run[CLI].fetched[1]) = 2
    /\ Len(run[CLI].comment_pos) = 1

\* Every mined PO number was merged already and the run went on without a
\* fetch.
C21_WitnessNoFetch ==
    /\ run[CLI].pc = "merge_comment"
    /\ DOMAIN run[CLI].comment_po_map # {}
    /\ run[CLI].fetched = << >>

(***************************************************************************)
(* The order of the stages of a run                                        *)
(***************************************************************************)
\* The statements of run_etl up to the load.
StagedStatements ==
    {"pull_projects", "pull_purchase_orders", "pull_sams_umbrella_pos",
     "merge_sams", "pull_comment_referenced_pos", "merge_comment",
     "load_to_sqlite"}

\* The place of a statement in the order extraction, indirect attribution,
\* comment recovery, merge, load.
ClaimedStage(pc) ==
    CASE pc \in {"pull_projects", "pull_purchase_orders"} -> 1
      [] pc = "pull_sams_umbrella_pos" -> 2
      [] pc = "pull_comment_referenced_pos" -> 3
      [] pc \in {"merge_sams", "merge_comment"} -> 4
      [] pc = "load_to_sqlite" -> 5

\* The place of a statement in the order extraction, indirect attribution,
\* merge of the umbrella POs, comment recovery, merge of the recovered POs,
\* load.
InterleavedStage(pc) ==
    CASE pc \in {"pull_projects", "pull_purchase_orders"} -> 1
      [] pc = "pull_sams_umbrella_pos" -> 2
      [] pc = "merge_sams" -> 3
      [] pc = "pull_comment_referenced_pos" -> 4
      [] pc = "merge_comment" -> 5
      [] pc = "load_to_sqlite" -> 6

\* What the statements from pc on write is still as it was when the run
\* started, so no statement before pc has read it.
LaterOutputsUnset(r, pc) ==
    /\ InterleavedStage(pc) <= 6 => ~run[r].load_started
    /\ InterleavedStage(pc) <= 5
         => \A i \in 1..Len(run[r].pos) :
              run[r].pos[i].po_number \in
                  {run[r].sams_pos[j].po_number : j \in 1..Len(run[r].sams_pos)}
                    \cup {upstream.direct[j].po_number :
                             j \in 1..Len(upstream.direct)}
    /\ InterleavedStage(pc) <= 4
         => /\ run[r].comment_po_map = EmptyDict
            /\ run[r].comment_pos = << >>
            /\ run[r].fetched = << >>
    /\ InterleavedStage(pc) <= 3
         => Len(run[r].pos) <= Len(upstream.direct)
    /\ InterleavedStage(pc) <= 2
         => run[r].sams_pos = << >> /\ run[r].store_to_sap = EmptyDict
    /\ InterleavedStage(pc) <= 1 => run[r].existing_po_numbers = {}

\* C22 as stated: a run never goes from a statement of one stage to a
\* statement of an earlier stage of the order extraction, indirect
\* attribution, comment recovery, merge, load.
C22_StagesInClaimedOrder ==
    [][\A r \in Runners :
         (run[r].pc \in StagedStatements /\ run'[r].pc \in StagedStatements)
           => ClaimedStage(run'[r].pc) >= ClaimedStage(run[r].pc)]_vars

\* C22 as amended: a run never goes from a statement of one stage to a
\* statement of an earlier stage of the order extraction, indirect
\* attribution, merge of the umbrella POs, comment recovery, merge of the
\* recovered POs, load; a step takes it at most to the next stage; and when a
\* stage is about to start, nothing that it or a later stage writes has been
\* written.
C22_StagesInInterleavedOrder ==
    /\ [][\A r \in Runners :
            (run[r].pc \in StagedStatements /\ run'[r].pc \in StagedStatements)
              => /\ InterleavedStage(run'[r].pc) >= InterleavedStage(run[r].pc)
                 /\ InterleavedStage(run'[r].pc)
                      <= InterleavedStage(run[r].pc) + 1]_vars
    /\ [](\A r \in Runners :
            run[r].pc \in StagedStatements => LaterOutputsUnset(r, run[r].pc))

\* A run is about to load after a recovery that left out a mined PO number
\* because the merge of the umbrella POs had added it.
C22_Witness ==
    /\ run[CLI].pc = "load_to_sqlite"
    /\ \E n \in DOMAIN run[CLI].comment_po_map :
         /\ run[CLI].fetched # << >>
         /\ n \notin run[CLI].fetched[1]
         /\ \E j \in 1..Len(run[CLI].sams_pos) :
              run[CLI].sams_pos[j].po_number = n
         /\ \A j \in 1..Len(upstream.direct) : upstream.direct[j].po_number # n

(***************************************************************************)
(* The refresh-in-progress flag after a refresh                            *)
(***************************************************************************)
\* C24: the step in which a refresh started through POST /api/refresh ends,
\* with run_etl returned or raised, leaves the flag cleared; the flag is set
\* only while some client's refresh is in progress; and a request is answered
\* busy only while another client's refresh is in progress.
C24_FlagClearedWhenRefreshEnds ==
    /\ [][\A c \in Requests :
            (request[c] = "awaiting" /\ request'[c] # "awaiting")
              => /\ run[c].pc \in {"returned", "raised"}
                 /\ ~etl_lock'.running]_vars
    /\ [](etl_lock.running => \E c \in Requests : request[c] = "awaiting")
    /\ [][\A c \in Requests :
            (request[c] = "sent" /\ response'[c] = "busy"
               /\ request'[c] = "none")
              => \E d \in Requests \ {c} : request[d] = "awaiting"]_vars

\* A refresh ended with an error, and a request sent after it was accepted.
C24_Witness ==
    \E c, d \in Requests :
        /\ c # d
        /\ response[c] = "error"
        /\ request[c] = "none"
        /\ request[d] = "awaiting"
        /\ run[d].pc = "pull_projects"
        /\ etl_lock.running

(***************************************************************************)
(* C25                                                                     *)
(***************************************************************************)
\* The run r has ended: run_etl returned or an exception left it.
RunEnded(r) == run[r].pc \in {"returned", "raised"}

\* Every tracked source has a refresh_metadata row whose local refresh time
\* is not before the last load.
MetadataNotOlderThanData ==
    \A k \in Range(SourceKeys) :
        \E i \in MetadataRowsOf(refresh_metadata, k) :
            \E t \in loaded_at..MaxClock :
                refresh_metadata[i].dashboard_refreshed_at = FormatTime(t)

\* C25: a run that has replaced the persisted project, PO and budget rows has,
\* when it ends, recorded refresh metadata for every tracked source, with a
\* local refresh time that is not older than the loaded data.
C25_LoadingRunRecordsMetadata ==
    \A r \in Runners :
        (RunEnded(r) /\ run[r].load_started) => MetadataNotOlderThanData

(***************************************************************************)
(* C23                                                                     *)
(***************************************************************************)
\* This step is a call of sync_project_documents.
SyncCalled == sync'.last.flip # sync.last.flip

\* The ids of the documents Lucernex holds for the project.
ExistingIn(project_id) ==
    UNION {{lucernex[project_id][f].docs[k].doc_id :
               k \in 1..Len(lucernex[project_id][f].docs)} :
           f \in 1..Len(lucernex[project_id])}

\* C23: a call of sync_project_documents(p) that returns marks as deleted
\* exactly those active stored documents of p that Lucernex no longer holds
\* for p, removes no row, and leaves active every document that still exists.
C23_SoftDeletesExactlyTheVanished ==
    [][(SyncCalled /\ ~sync'.last.raises) =>
          /\ DOMAIN lucernex_documents \subseteq DOMAIN lucernex_documents'
          /\ \A id \in DOMAIN lucernex_documents :
                (/\ lucernex_documents[id].project_id = sync'.last.project_id
                 /\ lucernex_documents[id].is_deleted = 0)
                => (lucernex_documents'[id].is_deleted = 1
                      <=> id \notin ExistingIn(sync'.last.project_id))]_vars

\* The part of C23 that holds: no row is removed, and the active documents of
\* p that are marked are exactly those the fetch did not return.
C23_SoftDeletesExactlyTheUnfetched ==
    [][(SyncCalled /\ ~sync'.last.raises) =>
          /\ DOMAIN lucernex_documents \subseteq DOMAIN lucernex_documents'
          /\ \A id \in DOMAIN lucernex_documents :
                (/\ lucernex_documents[id].project_id = sync'.last.project_id
                 /\ lucernex_documents[id].is_deleted = 0)
                => (lucernex_documents'[id].is_deleted = 1
                      <=> id \notin {sync'.last.docs[k].doc_id :
                                       k \in 1..Len(sync'.last.docs)})]_vars

(***************************************************************************)
(* C27                                                                     *)
(***************************************************************************)
\* C27: a call of sync_project_documents(p) changes no stored row whose
\* project_id differs from p, also when a document id returned for p is
\* already stored under another project.
C27_OtherProjectsRowsUnchanged ==
    [][SyncCalled =>
          \A id \in DOMAIN lucernex_documents :
              lucernex_documents[id].project_id # sync'.last.project_id
              => /\ id \in DOMAIN lucernex_documents'
                 /\ lucernex_documents'[id] = lucernex_documents[id]]_vars

\* The part of C27 that holds: the rows of other projects whose id the fetch
\* did not return are unchanged.
C27_UnreturnedRowsOfOthersUnchanged ==
    [][SyncCalled =>
          \A id \in DOMAIN lucernex_documents :
              (/\ lucernex_documents[id].project_id # sync'.last.project_id
               /\ \A k \in 1..Len(sync'.last.docs) :
                      sync'.last.docs[k].doc_id # id)
              => /\ id \in DOMAIN lucernex_documents'
                 /\ lucernex_documents'[id] = lucernex_documents[id]]_vars

(***************************************************************************)
(* C28                                                                     *)
(***************************************************************************)
\* The is_deleted flags of the stored documents.
DeletedFlags(table) == [id \in DOMAIN table |-> table[id].is_deleted]

\* The step is a call that returns and the call before it was one for the
\* same project that returned the same documents.
SyncedAgainWithSameDocuments ==
    /\ SyncCalled
    /\ ~sync.last.raises /\ ~sync'.last.raises
    /\ sync.last.project_id = sync'.last.project_id
    /\ sync.last.docs = sync'.last.docs

\* C28: a document of p that an earlier sync soft-deleted and that a later
\* sync_project_documents(p) returns again is active after that sync; a sync
\* with the same returned documents as the sync of p before it leaves the
\* is_deleted flags as that sync left them.
C28_ReturnedAgainIsActiveAndResyncKeepsFlags ==
    [][/\ (SyncCalled /\ ~sync'.last.raises) =>
            \A k \in 1..Len(sync'.last.docs) :
                LET id == sync'.last.docs[k].doc_id
                IN  (/\ id \in DOMAIN lucernex_documents
                     /\ lucernex_documents[id].project_id
                           = sync'.last.project_id
                     /\ lucernex_documents[id].is_deleted = 1)
                    => lucernex_documents'[id].is_deleted = 0
       /\ SyncedAgainWithSameDocuments =>
            DeletedFlags(lucernex_documents')
              = DeletedFlags(lucernex_documents)]_vars

\* The last sync returned a document of its project that was stored as
\* deleted, and the document is active now.
C28_Witness ==
    /\ sync.last.revived # {}
    /\ ~sync.last.raises
    /\ \A id \in sync.last.revived :
          /\ lucernex_documents[id].project_id = sync.last.project_id
          /\ lucernex_documents[id].is_deleted = 0

(***************************************************************************)
(* C29                                                                     *)
(***************************************************************************)
\* a sorts before b in the order of the project_id column.
TextBefore(a, b) ==
    \E i, j \in 1..Len(TextOrder) :
        i < j /\ TextOrder[i] = a /\ TextOrder[j] = b

\* The project ids of the projects table.
StoredProjectIds == {db.projects[i].project_id : i \in 1..Len(db.projects)}

\* C29: when sync_all_projects is through, sync_project_documents has been
\* attempted exactly once for each project id of the projects table, in
\* ascending order of the ids, whatever attempts raised; and the loop, once
\* started, comes to its end.
C29_EveryProjectAttemptedOnceInOrder ==
    /\ [](sync.pc = "done" =>
            /\ Range(sync.attempted) = StoredProjectIds
            /\ Len(sync.attempted) = Cardinality(StoredProjectIds)
            /\ \A i, j \in 1..Len(sync.attempted) :
                  i < j => TextBefore(sync.attempted[i], sync.attempted[j]))
    /\ (sync.pc = "looping") ~> (sync.pc = "done")

\* sync_all_projects is through, and an attempt before the last one raised.
C29_Witness ==
    /\ sync.pc = "done"
    /\ Len(sync.attempted) >= 2
    /\ sync.errors >= 1
    /\ ~sync.last.raises
    /\ sync.last.project_id = sync.attempted[Len(sync.attempted)]

====
